---------------------------- MODULE Spec2Model ----------------------------
(***************************************************************************)
(* A model of tools/dev/check_nanoapp_symbols.py, the nanoapp symbol       *)
(* allowlist check, of tools/dev/env_setup.py, the environment wizard, and *)
(* of tools/dev/flash.py, the installer.  Each script is one process; the  *)
(* three share the variables every process has.  Strings are sequences of one-character strings, so    *)
(* that startswith, find, slicing, split and strip are computed character  *)
(* by character, as Python computes them.                                  *)
(***************************************************************************)
EXTENDS Naturals, Integers, Sequences, FiniteSets, TLC

VARIABLES
    pc,                       \* position of __main__ (lines 228-263)
    elf_reader,               \* what running CHRE_TARGET_ELF_READER does
    observed_symbols,         \* __main__ line 232
    allowed_symbols,          \* __main__ lines 233-237
    disallowed_symbols_list,  \* __main__ line 239
    stdout,                   \* what print() has written, in order
    exit_status,              \* the process's exit status: <<>> while running
    error,                    \* the uncaught exception that ended the run, or "none"
    io_log,                   \* the tool run, the reads and the matcher call so far, in order
    environ,                  \* os.environ: the variables the script reads
    args,                     \* the parsed command line (lines 219-230)
    listdir_chre,             \* what listdir(chre_api_path + '/chre') gives
    cparser,                  \* what pyclibrary.CParser gives for each header
    fs,                       \* the text files the run may open
    target_envs_configs,      \* env_setup.py line 340: the "env_vars" of the chosen target
    stdin,                    \* env_setup.py: the lines input() will read, in order
    all_env_names,            \* env_setup.py line 281
    env_var_pairs,            \* env_setup.py line 282
    var_index,                \* env_setup.py line 283: the position of the for loop
    env_vars_file,            \* env_setup.py line 343: CHRE_DEV_PATH/env_vars.txt
    dirs,                     \* env_setup.py: the directories that exist
    git                       \* env_setup.py line 118: whether git clone succeeds

inputs == <<elf_reader, environ, args, listdir_chre, cparser, fs>>

\* The state of env_setup.py, which the other two scripts never touch.
wizard == <<target_envs_configs, stdin, all_env_names, env_var_pairs, var_index,
            env_vars_file, dirs, git>>

vars == <<pc, observed_symbols, allowed_symbols, disallowed_symbols_list,
          stdout, exit_status, error, io_log, inputs, wizard>>

\* ------------------------------------------------------------ bounds

\* Longest observed-symbol list and allowed-symbol list the matcher is given.
MaxObserved == 2
MaxAllowed == 2

\* ------------------------------------------------------------ strings

Range(s) == {s[i] : i \in 1..Len(s)}

\* Python: c in s
Contains(s, c) == \E i \in 1..Len(s) : s[i] = c

\* Python: s.find(c), the 0-based index of the first c, -1 when there is none
PyFind(s, c) ==
    IF Contains(s, c)
    THEN (CHOOSE i \in 1..Len(s) : s[i] = c /\ \A j \in 1..(i - 1) : s[j] # c) - 1
    ELSE -1

\* Python: s[:k], k negative counting from the end
PySliceTo(s, k) ==
    LET stop == IF k < 0 THEN (IF Len(s) + k < 0 THEN 0 ELSE Len(s) + k)
                ELSE (IF k > Len(s) THEN Len(s) ELSE k)
    IN SubSeq(s, 1, stop)

\* Python: s.startswith(prefix)
StartsWith(s, prefix) ==
    /\ Len(prefix) <= Len(s)
    /\ SubSeq(s, 1, Len(prefix)) = prefix

\* ------------------------------------------------------------ the matcher

\* The orders in which list(set(...)) may enumerate the set S; Python leaves
\* the order of a set unspecified.
Orderings(S) ==
    {q \in [1..Cardinality(S) -> S] : \A i, j \in 1..Cardinality(S) : q[i] = q[j] => i = j}

\* Mutation of IsWildcard: the test of line 212 dropped, every entry taken
\* as a wildcard.
IsWildcardAlways(allowed) == TRUE

\* Mutation of IsWildcard: an entry with nothing in it is taken as a wildcard
\* too.
IsWildcardOrEmpty(allowed) == allowed = <<>> \/ Contains(allowed, "*")

\* line 212
IsWildcard(allowed) == Contains(allowed, "*")

\* Mutation of WildcardPrefix: the marker taken to be the last character,
\* allowed[:-1].
WildcardPrefixDropLast(allowed) == PySliceTo(allowed, -1)

\* line 213: allowed[:allowed.find('*')]
WildcardPrefix(allowed) == PySliceTo(allowed, PyFind(allowed, "*"))

\* Mutation of KeepNotStartingWith: an empty prefix filters nothing.
KeepNotStartingWithNonEmpty(diff_list, prefix) ==
    IF prefix = <<>> THEN diff_list
    ELSE SelectSeq(diff_list, LAMBDA sym : ~StartsWith(sym, prefix))

\* line 214
KeepNotStartingWith(diff_list, prefix) ==
    SelectSeq(diff_list, LAMBDA sym : ~StartsWith(sym, prefix))

\* Mutation of WildcardLoop: the loop is left after the first wildcard entry.
WildcardLoopFirstOnly(diff_list, allowed_syms, i) ==
    IF \E j \in i..Len(allowed_syms) : IsWildcard(allowed_syms[j])
    THEN LET first == CHOOSE j \in i..Len(allowed_syms) :
                        /\ IsWildcard(allowed_syms[j])
                        /\ \A k \in i..(j - 1) : ~IsWildcard(allowed_syms[k])
         IN KeepNotStartingWith(diff_list, WildcardPrefix(allowed_syms[first]))
    ELSE diff_list

\* Mutation of WildcardLoop: every wildcard entry filters the list the loop
\* started with, so only the last wildcard entry counts.
WildcardLoopLastOnly(diff_list, allowed_syms, i) ==
    IF \E j \in i..Len(allowed_syms) : IsWildcard(allowed_syms[j])
    THEN LET last == CHOOSE j \in i..Len(allowed_syms) :
                        /\ IsWildcard(allowed_syms[j])
                        /\ \A k \in (j + 1)..Len(allowed_syms) : ~IsWildcard(allowed_syms[k])
         IN KeepNotStartingWith(diff_list, WildcardPrefix(allowed_syms[last]))
    ELSE diff_list

\* lines 211-214, from the i-th allowed entry on
RECURSIVE WildcardLoop(_, _, _)
WildcardLoop(diff_list, allowed_syms, i) ==
    IF i > Len(allowed_syms) THEN diff_list
    ELSE WildcardLoop(
            IF IsWildcard(allowed_syms[i])
            THEN KeepNotStartingWith(diff_list, WildcardPrefix(allowed_syms[i]))
            ELSE diff_list,
            allowed_syms, i + 1)

\* line 208: set(observed_symbols) - set(allowed_symbols)
SetDifference(observed, allowed_syms) == Range(observed) \ Range(allowed_syms)

\* Mutation of _disallowed_symbols: the function remembers what it returned
\* and takes it as allowed when it is called again.
_disallowed_symbols_remembering(observed, allowed_syms) ==
    {WildcardLoop(d, allowed_syms, 1) :
        d \in Orderings(SetDifference(observed, allowed_syms \o disallowed_symbols_list))}

\* lines 195-215: the lists the call may return, one per enumeration order of
\* the set difference
_disallowed_symbols(observed, allowed_syms) ==
    {WildcardLoop(d, allowed_syms, 1) : d \in Orderings(SetDifference(observed, allowed_syms))}

\* ------------------------------------------------------------ text

\* The characters str.split() and str.strip() take as whitespace.
Whitespace == {" ", "\t", "\n"}

\* Python: text.splitlines(), for a text whose line boundaries are "\n"
RECURSIVE SplitLines(_)
SplitLines(text) ==
    IF text = <<>> THEN <<>>
    ELSE LET k == PyFind(text, "\n")
         IN IF k = -1 THEN <<text>>
            ELSE <<SubSeq(text, 1, k)>> \o SplitLines(SubSeq(text, k + 2, Len(text)))

\* The length of the longest prefix of s without whitespace.
WordLen(s) ==
    IF \E i \in 1..Len(s) : s[i] \in Whitespace
    THEN (CHOOSE i \in 1..Len(s) :
            s[i] \in Whitespace /\ \A j \in 1..(i - 1) : s[j] \notin Whitespace) - 1
    ELSE Len(s)

\* Python: line.split(), the maximal runs of non-whitespace characters
RECURSIVE Split(_)
Split(line) ==
    IF line = <<>> THEN <<>>
    ELSE IF line[1] \in Whitespace THEN Split(Tail(line))
    ELSE <<SubSeq(line, 1, WordLen(line))>>
            \o Split(SubSeq(line, WordLen(line) + 1, Len(line)))

\* Python: words[-2:]
PyLastTwo(words) ==
    SubSeq(words, IF Len(words) < 2 THEN 1 ELSE Len(words) - 1, Len(words))

\* Python: s.lstrip(), s.rstrip(), s.strip()
RECURSIVE LStrip(_)
LStrip(s) == IF s # <<>> /\ s[1] \in Whitespace THEN LStrip(Tail(s)) ELSE s

RECURSIVE RStrip(_)
RStrip(s) ==
    IF s # <<>> /\ s[Len(s)] \in Whitespace THEN RStrip(SubSeq(s, 1, Len(s) - 1)) ELSE s

Strip(s) == RStrip(LStrip(s))

\* ------------------------------------------------------------ the extractor

\* line 46
NUM_ROWS_TO_DISCARD == 4

\* line 174: the section indicator of an undefined symbol
UND == <<"U", "N", "D">>

\* lines 170-175, from the i-th line on; the unpacking of line 173 raises
\* ValueError unless words[-2:] holds two words
RECURSIVE ExtractLoop(_, _, _)
ExtractLoop(lines, i, symbols) ==
    IF i > Len(lines) THEN [raised |-> "none", symbols |-> symbols]
    ELSE LET last == PyLastTwo(Split(lines[i]))
         IN IF Len(last) # 2 THEN [raised |-> "ValueError", symbols |-> <<>>]
            ELSE ExtractLoop(lines, i + 1,
                             IF UND = last[1] THEN Append(symbols, last[2]) ELSE symbols)

\* lines 170-177 on the tool's output
ParseDynSyms(out) == ExtractLoop(SplitLines(out), NUM_ROWS_TO_DISCARD + 1, <<>>)

\* Mutation of _get_symbols_from_nanoapp: a failure of the tool is caught and
\* no symbol is returned.
_get_symbols_swallowing_failure(reader) ==
    IF reader.kind = "ok" THEN ParseDynSyms(reader.out)
    ELSE [raised |-> "none", symbols |-> <<>>]

\* lines 154-177: the exception raised and the list returned.  reader.kind is
\* "unset" (no CHRE_TARGET_ELF_READER: KeyError at line 166), "not_invocable"
\* (check_output cannot start the tool), "nonzero" (check_output raises
\* CalledProcessError) or "ok" (the tool printed reader.out and exited 0).
_get_symbols_from_nanoapp(reader) ==
    CASE reader.kind = "unset" -> [raised |-> "KeyError", symbols |-> <<>>]
      [] reader.kind = "not_invocable" -> [raised |-> "OSError", symbols |-> <<>>]
      [] reader.kind = "nonzero" -> [raised |-> "CalledProcessError", symbols |-> <<>>]
      [] OTHER -> ParseDynSyms(reader.out)

\* ------------------------------------------------------------ export macros

Letters ==
    {"a", "b", "c", "d", "e", "f", "g", "h", "i", "j", "k", "l", "m",
     "n", "o", "p", "q", "r", "s", "t", "u", "v", "w", "x", "y", "z",
     "A", "B", "C", "D", "E", "F", "G", "H", "I", "J", "K", "L", "M",
     "N", "O", "P", "Q", "R", "S", "T", "U", "V", "W", "X", "Y", "Z"}

Digits == {"0", "1", "2", "3", "4", "5", "6", "7", "8", "9"}

\* line 94: [A-Za-z_] and [A-Za-z0-9_]
IdentStart == Letters \cup {"_"}
IdentChar == Letters \cup Digits \cup {"_"}

\* line 93: the literal ADD_EXPORTED_SYMBOL
ADD_EXPORTED_SYMBOL ==
    <<"A", "D", "D", "_", "E", "X", "P", "O", "R", "T", "E", "D", "_",
      "S", "Y", "M", "B", "O", "L">>

\* line 94: the literal ADD_EXPORTED_C_SYMBOL
ADD_EXPORTED_C_SYMBOL ==
    <<"A", "D", "D", "_", "E", "X", "P", "O", "R", "T", "E", "D", "_",
      "C", "_", "S", "Y", "M", "B", "O", "L">>

NoMatch == [matched |-> FALSE, name |-> <<>>]

\* line[p] = c, false past the end of the line
At(line, p, c) == p <= Len(line) /\ line[p] = c

\* The literal lit stands at position p of line.
LiteralAt(line, p, lit) ==
    /\ p + Len(lit) - 1 <= Len(line)
    /\ SubSeq(line, p, p + Len(lit) - 1) = lit

\* \s* from position p: the first position at or after p that holds no
\* whitespace (Len(line) + 1 when none does)
SkipSpace(line, p) ==
    CHOOSE q \in p..(Len(line) + 1) :
        /\ q = Len(line) + 1 \/ line[q] \notin Whitespace
        /\ \A j \in p..(q - 1) : line[j] \in Whitespace

\* The first position at or after p that holds c, 0 when none does.
FirstFrom(line, p, c) ==
    IF \E q \in p..Len(line) : line[q] = c
    THEN CHOOSE q \in p..Len(line) : line[q] = c /\ \A j \in p..(q - 1) : line[j] # c
    ELSE 0

\* [A-Za-z0-9_]* from position p: the first position at or after p that holds
\* no identifier character
SkipIdent(line, p) ==
    CHOOSE q \in p..(Len(line) + 1) :
        /\ q = Len(line) + 1 \/ line[q] \notin IdentChar
        /\ \A j \in p..(q - 1) : line[j] \in IdentChar

\* Mutation of MatchSymbolAt: the group captures the internal name, the first
\* argument of the call.
MatchSymbolAtInternal(line, p) ==
    IF ~LiteralAt(line, p, ADD_EXPORTED_SYMBOL) THEN NoMatch
    ELSE LET open == SkipSpace(line, p + Len(ADD_EXPORTED_SYMBOL))
             comma == FirstFrom(line, open + 1, ",")
             quote == SkipSpace(line, comma + 1)
             close == FirstFrom(line, quote + 1, "\"")
         IN IF /\ At(line, open, "(")
               /\ comma > open + 1
               /\ At(line, quote, "\"")
               /\ close > quote + 1
               /\ At(line, close + 1, ")")
            THEN [matched |-> TRUE, name |-> SubSeq(line, open + 1, comma - 1)]
            ELSE NoMatch

\* line 93: ADD_EXPORTED_SYMBOL\s*\([^,]+,\s*"([^"]+)"\) matched at position p
MatchSymbolAt(line, p) ==
    IF ~LiteralAt(line, p, ADD_EXPORTED_SYMBOL) THEN NoMatch
    ELSE LET open == SkipSpace(line, p + Len(ADD_EXPORTED_SYMBOL))
             comma == FirstFrom(line, open + 1, ",")
             quote == SkipSpace(line, comma + 1)
             close == FirstFrom(line, quote + 1, "\"")
         IN IF /\ At(line, open, "(")
               /\ comma > open + 1
               /\ At(line, quote, "\"")
               /\ close > quote + 1
               /\ At(line, close + 1, ")")
            THEN [matched |-> TRUE, name |-> SubSeq(line, quote + 1, close - 1)]
            ELSE NoMatch

\* line 94: ADD_EXPORTED_C_SYMBOL\s*\(\s*([A-Za-z_][A-Za-z0-9_]*)\s*\) matched
\* at position p
MatchCSymbolAt(line, p) ==
    IF ~LiteralAt(line, p, ADD_EXPORTED_C_SYMBOL) THEN NoMatch
    ELSE LET open == SkipSpace(line, p + Len(ADD_EXPORTED_C_SYMBOL))
             first == SkipSpace(line, open + 1)
             after == SkipIdent(line, first)
             close == SkipSpace(line, after)
         IN IF /\ At(line, open, "(")
               /\ first <= Len(line)
               /\ line[first] \in IdentStart
               /\ At(line, close, ")")
            THEN [matched |-> TRUE, name |-> SubSeq(line, first, after - 1)]
            ELSE NoMatch

\* The regex of lines 93-94 matched at position p: the first alternative, then
\* the second.
MatchAt(line, p) ==
    IF MatchSymbolAt(line, p).matched THEN MatchSymbolAt(line, p)
    ELSE MatchCSymbolAt(line, p)

\* lines 101-104: re.search(regex, line), the match at the leftmost position,
\* and the name line 104 appends
ExportedName(line) ==
    IF \E p \in 1..Len(line) : MatchAt(line, p).matched
    THEN MatchAt(line, CHOOSE p \in 1..Len(line) :
                        /\ MatchAt(line, p).matched
                        /\ \A j \in 1..(p - 1) : ~MatchAt(line, j).matched)
    ELSE NoMatch

\* lines 98-104: the names of the matching lines of one file, in line order
RECURSIVE ScanExportLines(_, _)
ScanExportLines(lines, i) ==
    IF i > Len(lines) THEN <<>>
    ELSE (IF ExportedName(lines[i]).matched THEN <<ExportedName(lines[i]).name>> ELSE <<>>)
            \o ScanExportLines(lines, i + 1)

\* ------------------------------------------------------------ the aggregator

\* The value of an environment variable that is not set, and of an argument
\* that was not given.
Unset == "<unset>"
None == "<None>"

\* Mutation of PLATFORM_INFO: a platform without a profile gets an empty one.
PLATFORM_INFO_or_empty ==
    [p \in {"tinysys", "qsh", "x86"} |->
        IF p = "tinysys"
        THEN [external_symbol_list |-> "",
              header_files |-> <<>>,
              exported_list_files |-> <<"nanoapp_loader.cc", "symbol_list.h">>]
        ELSE IF p = "qsh"
        THEN [external_symbol_list |-> "dl_base_symbols.lst",
              header_files |-> <<"init.h">>,
              exported_list_files |-> <<>>]
        ELSE [external_symbol_list |-> "", header_files |-> <<>>,
              exported_list_files |-> <<>>]]

\* lines 68-79: the profile of each known platform; "" is no path
PLATFORM_INFO ==
    [p \in {"tinysys", "qsh"} |->
        IF p = "tinysys"
        THEN [external_symbol_list |-> "",
              header_files |-> <<>>,
              exported_list_files |-> <<"nanoapp_loader.cc", "symbol_list.h">>]
        ELSE [external_symbol_list |-> "dl_base_symbols.lst",
              header_files |-> <<"init.h">>,
              exported_list_files |-> <<>>]]

\* What a function did: the exception it raised ("none": it returned), the
\* list it returned, the lines it printed and the files it read, in order.
Returned(value, out, io) == [raised |-> "none", value |-> value, out |-> out, io |-> io]
Raised(e, out, io) == [raised |-> e, value |-> <<>>, out |-> out, io |-> io]

Printed(kind, n, text) == [kind |-> kind, n |-> n, text |-> text]
Io(op, path) == [op |-> op, path |-> path]

\* lines 97-107, from the i-th exported-list file on
RECURSIVE ExportedLoop(_, _, _, _, _, _)
ExportedLoop(files, files_on_disk, i, exported_names, out, io) ==
    IF i > Len(files) THEN Returned(exported_names, out, io)
    ELSE LET file == files[i]
             opened == Append(io, Io("open", file))
         IN IF ~files_on_disk[file].exists THEN Raised("OSError", out, opened)
            ELSE LET symbols == ScanExportLines(files_on_disk[file].lines, 1)
                 IN ExportedLoop(files, files_on_disk, i + 1,
                                 exported_names \o symbols,
                                 Append(out, Printed("count", Len(symbols), file)),
                                 opened)

\* lines 82-108
_get_known_exported_functions(env, files_on_disk) ==
    ExportedLoop(PLATFORM_INFO[env.CHRE_PLATFORM].exported_list_files,
                 files_on_disk, 1, <<>>, <<>>, <<>>)

\* Mutation of SyntaxWarningFilter: the warnings of the parser are raised as
\* exceptions.
SyntaxWarningFilterError == "error"

\* line 132: warnings.simplefilter('ignore', SyntaxWarning)
SyntaxWarningFilter == "ignore"

\* lines 134-137, from the i-th header on: a header pyclibrary cannot load
\* raises out of the loop (there is no except clause); a header it parses in
\* part, with warnings, yields the functions it recognized
RECURSIVE HeaderLoop(_, _, _, _, _)
HeaderLoop(header_files, parser, i, fnames, io) ==
    IF i > Len(header_files) THEN Returned(fnames, <<>>, io)
    ELSE LET h == header_files[i]
             parsed == Append(io, Io("parse", h))
         IN IF ~parser[h].ok THEN Raised("OSError", <<>>, parsed)
            ELSE IF parser[h].warned /\ SyntaxWarningFilter = "error"
                 THEN Raised("SyntaxWarning", <<>>, parsed)
            ELSE HeaderLoop(header_files, parser, i + 1,
                            fnames \o parser[h].functions, parsed)

\* Mutation of PlatformList: the platform's list file is not merged.
PlatformListSkipped(env, files_on_disk) ==
    [raised |-> "none", value |-> <<>>, out |-> <<>>, io |-> <<>>]

\* Mutation of PlatformList: the file is opened whenever the profile names
\* one, and open() raises when it does not exist.
PlatformListUnchecked(env, files_on_disk) ==
    LET platform_allowed_symbol_file == PLATFORM_INFO[env.CHRE_PLATFORM].external_symbol_list
    IN IF platform_allowed_symbol_file = ""
       THEN [raised |-> "none", value |-> <<>>, out |-> <<>>, io |-> <<>>]
       ELSE IF ~files_on_disk[platform_allowed_symbol_file].exists
       THEN [raised |-> "OSError", value |-> <<>>, out |-> <<>>,
             io |-> <<[op |-> "open", path |-> platform_allowed_symbol_file]>>]
       ELSE [raised |-> "none",
             value |-> [i \in 1..Len(files_on_disk[platform_allowed_symbol_file].lines) |->
                            Strip(files_on_disk[platform_allowed_symbol_file].lines[i])],
             out |-> <<>>,
             io |-> <<[op |-> "open", path |-> platform_allowed_symbol_file]>>]

\* lines 144-150: the platform's list file, read when its path is not empty
\* and the file exists
PlatformList(env, files_on_disk) ==
    LET platform_allowed_symbol_file == PLATFORM_INFO[env.CHRE_PLATFORM].external_symbol_list
    IN IF /\ platform_allowed_symbol_file # ""
          /\ files_on_disk[platform_allowed_symbol_file].exists
       THEN LET platform_external_symbols ==
                    [i \in 1..Len(files_on_disk[platform_allowed_symbol_file].lines) |->
                        Strip(files_on_disk[platform_allowed_symbol_file].lines[i])]
            IN Returned(platform_external_symbols,
                        <<Printed("count", Len(platform_external_symbols),
                                  platform_allowed_symbol_file)>>,
                        <<Io("open", platform_allowed_symbol_file)>>)
       ELSE Returned(<<>>, <<>>, <<>>)

\* lines 111-151
_get_allowed_symbols(env, listing, parser, files_on_disk) ==
    IF ~env.ANDROID_BUILD_TOP THEN Raised("KeyError", <<>>, <<>>)
    ELSE IF ~listing.ok THEN Raised("OSError", <<>>, <<Io("listdir", "chre")>>)
    ELSE IF env.CHRE_PLATFORM \notin DOMAIN PLATFORM_INFO
         THEN Raised("KeyError", <<>>, <<Io("listdir", "chre")>>)
    ELSE LET header_files == listing.files \o <<"chre.h">>
                                \o PLATFORM_INFO[env.CHRE_PLATFORM].header_files
             Collect(headers, exported, listed) ==
                LET count == <<Printed("count", Len(headers.value), "chre header files")>>
                IN IF headers.raised # "none" THEN headers
                   ELSE IF exported.raised # "none"
                        THEN Raised(exported.raised, count \o exported.out,
                                    headers.io \o exported.io)
                   ELSE IF listed.raised # "none"
                        THEN Raised(listed.raised, count \o exported.out \o listed.out,
                                    headers.io \o exported.io \o listed.io)
                   ELSE Returned(headers.value \o exported.value \o listed.value,
                                 count \o exported.out \o listed.out,
                                 headers.io \o exported.io \o listed.io)
         IN Collect(HeaderLoop(header_files, parser, 1, <<>>, <<Io("listdir", "chre")>>),
                    _get_known_exported_functions(env, files_on_disk),
                    PlatformList(env, files_on_disk))

\* Mutation of _get_allowed_symbols_from_file: the lines are returned with
\* their newlines, not stripped.
_get_allowed_symbols_from_file_unstripped(filename, files_on_disk) ==
    IF ~files_on_disk[filename].exists
    THEN [raised |-> "OSError", value |-> <<>>, out |-> <<>>,
          io |-> <<[op |-> "open", path |-> filename]>>]
    ELSE [raised |-> "none", value |-> files_on_disk[filename].lines, out |-> <<>>,
          io |-> <<[op |-> "open", path |-> filename]>>]

\* lines 180-192
_get_allowed_symbols_from_file(filename, files_on_disk) ==
    IF ~files_on_disk[filename].exists
    THEN Raised("OSError", <<>>, <<Io("open", filename)>>)
    ELSE Returned([i \in 1..Len(files_on_disk[filename].lines) |->
                        Strip(files_on_disk[filename].lines[i])],
                  <<>>, <<Io("open", filename)>>)

\* ------------------------------------------------------------ __main__

\* exit_status is <<>> while the process runs and <<n>> once it exited with n.
Exited(n) == exit_status = <<n>>

\* Mutation of Abort: the exception is caught and the run goes on with the
\* matcher.
AbortSwallowed(e) ==
    /\ pc' = "match"
    /\ error' = e
    /\ exit_status' = <<>>

\* An uncaught exception: Python prints the traceback and exits with status 1.
Abort(e) ==
    /\ pc' = "done"
    /\ error' = e
    /\ exit_status' = <<1>>

\* line 232
ObserveSymbols ==
    /\ pc = "extract"
    /\ LET r == _get_symbols_from_nanoapp(elf_reader)
       IN /\ io_log' = IF elf_reader.kind = "unset" THEN io_log
                       ELSE Append(io_log, Io("run", "elf_reader"))
          /\ IF r.raised # "none"
             THEN /\ Abort(r.raised)
                  /\ UNCHANGED <<observed_symbols, stdout>>
             ELSE /\ observed_symbols' = r.symbols
                  /\ stdout' = Append(stdout, Printed("count", Len(r.symbols), <<args.nanoapp>>))
                  /\ pc' = "allowed"
                  /\ UNCHANGED <<error, exit_status>>
    /\ UNCHANGED <<allowed_symbols, disallowed_symbols_list, inputs, wizard>>

\* line 233
AllowSymbols ==
    /\ pc = "allowed"
    /\ \E r \in {_get_allowed_symbols(environ, listdir_chre, cparser, fs)} :
          /\ io_log' = io_log \o r.io
          /\ stdout' = stdout \o r.out
          /\ IF r.raised # "none"
             THEN /\ Abort(r.raised)
                  /\ UNCHANGED allowed_symbols
             ELSE /\ allowed_symbols' = r.value
                  /\ pc' = "extra"
                  /\ UNCHANGED <<error, exit_status>>
    /\ UNCHANGED <<observed_symbols, disallowed_symbols_list, inputs, wizard>>

\* lines 235-237
AddAllowedFromFile ==
    /\ pc = "extra"
    /\ IF args.allowed_symbols_file = None
       THEN /\ pc' = "match"
            /\ UNCHANGED <<allowed_symbols, io_log, error, exit_status>>
       ELSE LET r == _get_allowed_symbols_from_file(args.allowed_symbols_file, fs)
            IN /\ io_log' = io_log \o r.io
               /\ IF r.raised # "none"
                  THEN /\ Abort(r.raised)
                       /\ UNCHANGED allowed_symbols
                  ELSE /\ allowed_symbols' = allowed_symbols \o r.value
                       /\ pc' = "match"
                       /\ UNCHANGED <<error, exit_status>>
    /\ UNCHANGED <<observed_symbols, disallowed_symbols_list, stdout, inputs, wizard>>

\* lines 239-240
Match ==
    /\ pc = "match"
    /\ disallowed_symbols_list' \in _disallowed_symbols(observed_symbols, allowed_symbols)
    /\ io_log' = Append(io_log, Io("match", ""))
    /\ pc' = "report"
    /\ UNCHANGED <<observed_symbols, allowed_symbols, stdout, exit_status, error, inputs, wizard>>

\* Mutation of Report: the listing is printed but sys.exit(1) is left out.
ReportWithoutExit ==
    /\ pc = "report"
    /\ IF Len(disallowed_symbols_list) > 0
       THEN stdout' = stdout
                    \o <<[kind |-> "unresolvable", n |-> Len(disallowed_symbols_list),
                          text |-> <<>>]>>
                    \o [i \in 1..Len(disallowed_symbols_list) |->
                            [kind |-> "symbol", n |-> 0, text |-> disallowed_symbols_list[i]]]
       ELSE stdout' = Append(stdout, [kind |-> "resolvable", n |-> 0, text |-> <<>>])
    /\ exit_status' = <<0>>
    /\ pc' = "done"
    /\ UNCHANGED <<observed_symbols, allowed_symbols, disallowed_symbols_list,
                   error, io_log, inputs, wizard>>

\* lines 243-263
Report ==
    /\ pc = "report"
    /\ IF Len(disallowed_symbols_list) > 0
       THEN /\ stdout' = stdout
                    \o <<Printed("unresolvable", Len(disallowed_symbols_list), <<>>)>>
                    \o [i \in 1..Len(disallowed_symbols_list) |->
                            Printed("symbol", 0, disallowed_symbols_list[i])]
            /\ exit_status' = <<1>>
       ELSE /\ stdout' = Append(stdout, Printed("resolvable", 0, <<>>))
            /\ exit_status' = <<0>>
    /\ pc' = "done"
    /\ UNCHANGED <<observed_symbols, allowed_symbols, disallowed_symbols_list,
                   error, io_log, inputs, wizard>>

\* ------------------------------------------------------------ inputs

\* The sequences over S of length at most n.
SeqsUpTo(S, n) == UNION {[1..k -> S] : k \in 0..n}

RECURSIVE Concat(_)
Concat(seqs) == IF seqs = <<>> THEN <<>> ELSE Head(seqs) \o Concat(Tail(seqs))

\* A text of the given lines, each ended by a newline.
JoinLines(lines) == Concat([i \in 1..Len(lines) |-> lines[i] \o <<"\n">>])

\* A line of the given words: lead before the first, sep between two.
JoinWords(words, lead, sep) ==
    lead \o Concat([i \in 1..Len(words) |-> IF i = 1 THEN words[i] ELSE sep \o words[i]])

chreGetTime == <<"c", "h", "r", "e", "G", "e", "t", "T", "i", "m", "e">>
mallocHook == <<"m", "a", "l", "l", "o", "c", "H", "o", "o", "k">>
foo == <<"f", "o", "o">>
foobar == <<"f", "o", "o", "b", "a", "r">>
barfoo == <<"b", "a", "r", "f", "o", "o">>
fooStar == <<"f", "o", "o", "*">>

\* The symbol names and allowlist entries the matcher is tried on: literal
\* names (two differing in case only), the empty entry, and entries with the
\* marker last, alone and inside.
Symbols ==
    {<<>>, <<"a">>, <<"a", "b">>, <<"A", "b">>, <<"a", "*">>, <<"*">>, <<"a", "*", "b">>}

\* The header block of a symbol dump as readelf prints it: a blank line, the
\* table's title, the column titles and the null symbol.
DumpHeader ==
    <<<<>>,
      <<"S", "y", "m", "b", "o", "l", " ", "t", "a", "b", "l", "e">>,
      <<"N", "u", "m", ":", " ", "N", "d", "x", " ", "N", "a", "m", "e">>,
      <<"0", ":", " ", "L", "O", "C", "A", "L", " ", "U", "N", "D">>>>

\* A header block whose lines read as rows of undefined symbols.
UndHeader == [i \in 1..NUM_ROWS_TO_DISCARD |-> UND \o <<" ", "a">>]

\* A row of the dump: number, type, section indicator, name.
DumpRow(ndx, name) == <<" ", "1", ":", " ", "F", "U", "N", "C", " ">> \o ndx \o <<"\t">> \o name

ReaderOk(out) == [kind |-> "ok", out |-> out]
ReaderFails(kind) == [kind |-> kind, out |-> <<>>]

\* The dumps of the whole-run specification: two undefined symbols around a
\* defined one; undefined symbols a wildcard may cover; no row at all; a
\* blank row before an undefined symbol.
RunDumps ==
    {JoinLines(DumpHeader \o <<DumpRow(UND, chreGetTime), DumpRow(<<"7">>, <<"m", "a", "i", "n">>),
                               DumpRow(UND, mallocHook)>>),
     JoinLines(DumpHeader \o <<DumpRow(UND, <<"a", "b">>), DumpRow(UND, <<"b", "a">>)>>),
     JoinLines(DumpHeader),
     JoinLines(DumpHeader \o <<<<>>, DumpRow(UND, chreGetTime)>>)}

ElfReaders ==
    {ReaderFails("unset"), ReaderFails("not_invocable"), ReaderFails("nonzero")}
        \cup {ReaderOk(out) : out \in RunDumps}

\* What pyclibrary.CParser does with a header: it parses it and gives its
\* functions; it parses a part of it, warns about the rest and gives the
\* functions it recognized; it cannot load the file and raises.
Parsed(functions) == [ok |-> TRUE, functions |-> functions, warned |-> FALSE]
ParsedWithWarnings(functions) == [ok |-> TRUE, functions |-> functions, warned |-> TRUE]
Unparsed == [ok |-> FALSE, functions |-> <<>>, warned |-> FALSE]

File(lines) == [exists |-> TRUE, lines |-> lines]
Missing == [exists |-> FALSE, lines |-> <<>>]

\* A line of a file as readlines() gives it, with its newline.
Line(s) == s \o <<"\n">>

Listing(files) == [ok |-> TRUE, files |-> files]
NoListing == [ok |-> FALSE, files |-> <<>>]

Platforms == {"tinysys", "qsh", "x86", Unset}

\* nanoapp_loader.cc: absent, empty, or a comment, a call of each macro and a
\* call with no closing parenthesis
LoaderChoices ==
    {Missing, File(<<>>),
     File(<<Line(<<"/", "/", " ", "e", "x", "p", "o", "r", "t", "s">>),
            Line(<<" ", " ">> \o ADD_EXPORTED_SYMBOL
                    \o <<"(", "i", "m", "p", "l", ",", " ", "\"">> \o mallocHook \o <<"\"", ")", ",">>),
            Line(ADD_EXPORTED_C_SYMBOL \o <<" ", "(", " ">> \o <<"a", "b">> \o <<" ", ")", ",">>),
            Line(ADD_EXPORTED_C_SYMBOL \o <<"(">> \o <<"b", "a">>)>>)}

\* symbol_list.h: empty, or one call of the C macro
SymbolListChoices ==
    {File(<<>>), File(<<Line(ADD_EXPORTED_C_SYMBOL \o <<"(">> \o chreGetTime \o <<")">>)>>)}

\* dl_base_symbols.lst: absent, empty, or a wildcard entry, a blank line and a
\* padded name
BaseSymbolsChoices ==
    {Missing, File(<<>>),
     File(<<Line(<<"a", "*">>), Line(<<>>), Line(<<" ">> \o mallocHook \o <<" ">>)>>)}

\* --allowed_symbols_file: not given, naming no file, naming a file with one
\* name, naming a file with the bare marker, naming a file with a line of
\* whitespace before a name
ExtraChoices ==
    {[path |-> None, file |-> Missing],
     [path |-> "extra.txt", file |-> Missing],
     [path |-> "extra.txt", file |-> File(<<Line(mallocHook)>>)],
     [path |-> "extra.txt", file |-> File(<<Line(<<"*">>), <<"b", "a">>>>)],
     [path |-> "extra.txt", file |-> File(<<Line(<<" ", "\t">>), Line(chreGetTime)>>)]}

\* The state at line 232, the arguments parsed and the banner printed.
Start ==
    /\ pc = "extract"
    /\ observed_symbols = <<>>
    /\ allowed_symbols = <<>>
    /\ disallowed_symbols_list = <<>>
    /\ stdout = <<Printed("banner", 0, <<>>)>>
    /\ exit_status = <<>>
    /\ error = "none"
    /\ io_log = <<>>

\* env_setup.py is not running: its state is empty and stays so.
NoWizard ==
    /\ target_envs_configs = <<>>
    /\ stdin = <<>>
    /\ all_env_names = {}
    /\ env_var_pairs = <<>>
    /\ var_index = 0
    /\ env_vars_file = [exists |-> FALSE, lines |-> <<>>]
    /\ dirs = {}
    /\ git = "ok"

\* The inputs of one run: the tool, the environment, the arguments, the
\* headers and the files.
World(reader, top, listing, platform, chre_h, re_h, init_h, loader, symbol_list, base_symbols, extra) ==
    /\ NoWizard
    /\ elf_reader = reader
    /\ environ = [CHRE_PLATFORM |-> platform, ANDROID_BUILD_TOP |-> top]
    /\ args = [nanoapp |-> "nanoapp.so", allowed_symbols_file |-> extra.path]
    /\ listdir_chre = listing
    /\ cparser = [h \in {"chre/re.h", "chre.h", "init.h"} |->
                    CASE h = "chre/re.h" -> re_h
                      [] h = "chre.h" -> chre_h
                      [] OTHER -> init_h]
    /\ fs = [f \in {"nanoapp_loader.cc", "symbol_list.h", "dl_base_symbols.lst", "extra.txt"} |->
                CASE f = "nanoapp_loader.cc" -> loader
                  [] f = "symbol_list.h" -> symbol_list
                  [] f = "dl_base_symbols.lst" -> base_symbols
                  [] OTHER -> extra.file]

\* Every input the run reads; a file or header the run cannot reach is left
\* absent.
Init ==
    /\ Start
    /\ \E reader \in ElfReaders, top \in BOOLEAN, extra \in ExtraChoices :
       \E listing \in (IF top THEN {NoListing, Listing(<<>>), Listing(<<"chre/re.h">>)}
                       ELSE {NoListing}) :
       \E platform \in (IF listing.ok THEN Platforms ELSE {Unset}) :
       \E chre_h \in (IF listing.ok
                      THEN {Parsed(<<chreGetTime>>), Parsed(<<>>), Unparsed,
                            ParsedWithWarnings(<<chreGetTime>>)}
                      ELSE {Unparsed}),
          re_h \in (IF listing.files # <<>> THEN {Parsed(<<<<"a", "b">>>>), Unparsed}
                    ELSE {Unparsed}),
          init_h \in (IF platform = "qsh" THEN {Parsed(<<mallocHook>>), Parsed(<<>>)}
                      ELSE {Unparsed}),
          loader \in (IF platform = "tinysys" THEN LoaderChoices ELSE {Missing}),
          symbol_list \in (IF platform = "tinysys" THEN SymbolListChoices ELSE {Missing}),
          base_symbols \in (IF platform = "qsh" THEN BaseSymbolsChoices ELSE {Missing}) :
            World(reader, top, listing, platform, chre_h, re_h, init_h, loader,
                  symbol_list, base_symbols, extra)

Next ==
    \/ ObserveSymbols
    \/ AllowSymbols
    \/ AddAllowedFromFile
    \/ Match
    \/ Report

Spec == Init /\ [][Next]_vars

\* ------------------------------------------------------------ the matcher alone

\* The inputs of a run that reads nothing: used where one function is checked
\* on its own arguments.
QuietWorld ==
    World(ReaderOk(JoinLines(DumpHeader)), TRUE, Listing(<<>>), "tinysys", Parsed(<<>>),
          Unparsed, Unparsed, File(<<>>), File(<<>>), Missing,
          [path |-> None, file |-> Missing])

\* _disallowed_symbols on every pair of lists over Symbols within the bounds,
\* and on the lists of the wildcard-absorption example.
InitMatcher ==
    /\ pc = "match"
    /\ \/ /\ observed_symbols \in SeqsUpTo(Symbols, MaxObserved)
          /\ allowed_symbols \in SeqsUpTo(Symbols, MaxAllowed)
       \/ /\ observed_symbols = <<foobar, foo, barfoo>>
          /\ allowed_symbols \in {<<fooStar>>, <<foo>>}
    /\ disallowed_symbols_list = <<>>
    /\ stdout = <<Printed("banner", 0, <<>>)>>
    /\ exit_status = <<>>
    /\ error = "none"
    /\ io_log = <<>>
    /\ QuietWorld

NextMatcher == Match

SpecMatcher == InitMatcher /\ [][NextMatcher]_vars

\* ------------------------------------------------------------ the matcher called again

\* The names and entries the second call is tried on: two names differing in
\* case only, the bare marker, and two wildcard entries of one prefix.
SymbolsAgain == {<<"a", "b">>, <<"A", "b">>, <<"a", "*">>, <<"*">>, <<"a", "*", "b">>}

\* The lists within the bound that hold the same elements as list, in any
\* order and any number of times.
Rearranged(list, bound) == {q \in SeqsUpTo(Range(list), bound) : Range(q) = Range(list)}

\* The non-wildcard entries of an allowed list and the wildcard prefixes of
\* its other entries.
LiteralEntries(allowed_syms) ==
    {allowed_syms[i] : i \in {j \in 1..Len(allowed_syms) : ~IsWildcard(allowed_syms[j])}}
WildcardPrefixes(allowed_syms) ==
    {WildcardPrefix(allowed_syms[i]) :
        i \in {j \in 1..Len(allowed_syms) : IsWildcard(allowed_syms[j])}}

\* The allowed lists within the bound with the literal entries of
\* allowed_syms and wildcard entries of the same prefixes.
SamePrefixes(allowed_syms, bound) ==
    {q \in SeqsUpTo(Range(allowed_syms)
                        \cup {w \in SymbolsAgain : /\ IsWildcard(w)
                                              /\ WildcardPrefix(w) \in WildcardPrefixes(allowed_syms)},
                    bound) :
        /\ LiteralEntries(q) = LiteralEntries(allowed_syms)
        /\ WildcardPrefixes(q) = WildcardPrefixes(allowed_syms)}

\* _disallowed_symbols called a second time with the lists of the first call.
MatchAgain ==
    /\ pc = "report"
    /\ disallowed_symbols_list' \in _disallowed_symbols(observed_symbols, allowed_symbols)
    /\ io_log' = Append(io_log, Io("match", "same arguments"))
    /\ pc' = "again"
    /\ UNCHANGED <<observed_symbols, allowed_symbols, stdout, exit_status, error, inputs, wizard>>

\* _disallowed_symbols called a second time with one of the lists rearranged:
\* the observed symbols reordered and repeated, or the allowed entries
\* reordered, repeated and their wildcards replaced by wildcards of the same
\* prefixes.
MatchRearranged ==
    /\ pc = "report"
    /\ \/ /\ observed_symbols' \in Rearranged(observed_symbols, MaxObserved)
          /\ allowed_symbols' = allowed_symbols
       \/ /\ allowed_symbols' \in SamePrefixes(allowed_symbols, MaxAllowed)
          /\ observed_symbols' = observed_symbols
    /\ disallowed_symbols_list' \in _disallowed_symbols(observed_symbols', allowed_symbols')
    /\ io_log' = Append(io_log, Io("match", "rearranged arguments"))
    /\ pc' = "again"
    /\ UNCHANGED <<stdout, exit_status, error, inputs, wizard>>

NextMatcherAgain ==
    \/ Match
    \/ MatchAgain
    \/ MatchRearranged

\* The first call, on every pair of lists over SymbolsAgain within the bounds.
InitMatcherAgain ==
    /\ pc = "match"
    /\ observed_symbols \in SeqsUpTo(SymbolsAgain, MaxObserved)
    /\ allowed_symbols \in SeqsUpTo(SymbolsAgain, MaxAllowed)
    /\ disallowed_symbols_list = <<>>
    /\ stdout = <<Printed("banner", 0, <<>>)>>
    /\ exit_status = <<>>
    /\ error = "none"
    /\ io_log = <<>>
    /\ QuietWorld

SpecMatcherAgain == InitMatcherAgain /\ [][NextMatcherAgain]_vars

\* ------------------------------------------------------------ the matcher given a longer allowlist

\* allowed_syms with entry put in after its first k entries.
WithEntry(allowed_syms, k, entry) ==
    SubSeq(allowed_syms, 1, k) \o <<entry>> \o SubSeq(allowed_syms, k + 1, Len(allowed_syms))

\* _disallowed_symbols called a second time with the same observed symbols
\* and an allowed list that holds one entry more, at any place.
MatchWider ==
    /\ pc = "report"
    /\ \E k \in 0..Len(allowed_symbols), entry \in SymbolsAgain :
          allowed_symbols' = WithEntry(allowed_symbols, k, entry)
    /\ disallowed_symbols_list' \in _disallowed_symbols(observed_symbols, allowed_symbols')
    /\ io_log' = Append(io_log, Io("match", "one entry more"))
    /\ pc' = "wider"
    /\ UNCHANGED <<observed_symbols, stdout, exit_status, error, inputs, wizard>>

NextMatcherWider ==
    \/ Match
    \/ MatchWider

SpecMatcherWider == InitMatcherAgain /\ [][NextMatcherWider]_vars

\* ------------------------------------------------------------ the export-macro scan alone

\* Most lines of an export-macro source.
MaxExportLines == 2

\* The lines the scan is tried on.  Calls of the first macro: indented; with
\* blanks before the parenthesis and in the first argument; with no first
\* argument; with an empty name; with a blank before the closing parenthesis;
\* with an unquoted name; with three arguments; with a blank in the name.
\* Calls of the second macro: plain; after other text, with blanks around
\* the identifier; of a word starting with a digit; unclosed; of two words;
\* followed by a call of the first macro; nested.  A comment; an empty line.
ExportLines ==
    {<<" ", " ">> \o ADD_EXPORTED_SYMBOL \o <<"(", "f", ",", " ", "\"", "n", "\"", ")">>,
     ADD_EXPORTED_SYMBOL \o <<" ", "(", "f", " ", "g", ",", " ", " ", "\"", "n", "1", "\"", ")", ",">>,
     ADD_EXPORTED_SYMBOL \o <<"(", ",", " ", "\"", "n", "\"", ")">>,
     ADD_EXPORTED_SYMBOL \o <<"(", "f", ",", " ", "\"", "\"", ")">>,
     ADD_EXPORTED_SYMBOL \o <<"(", "f", ",", " ", "\"", "n", "\"", " ", ")">>,
     ADD_EXPORTED_SYMBOL \o <<"(", "f", ",", " ", "n", ")">>,
     ADD_EXPORTED_SYMBOL \o <<"(", "f", ",", " ", "g", ",", " ", "\"", "n", "\"", ")">>,
     ADD_EXPORTED_SYMBOL \o <<"(", "f", ",", "\"", "a", " ", "b", "\"", ")">>,
     ADD_EXPORTED_C_SYMBOL \o <<"(", "n", ")">>,
     <<"x">> \o ADD_EXPORTED_C_SYMBOL \o <<" ", "(", " ", "_", "n", "1", " ", ")", ";">>,
     ADD_EXPORTED_C_SYMBOL \o <<"(", "1", "n", ")">>,
     ADD_EXPORTED_C_SYMBOL \o <<"(", "n">>,
     ADD_EXPORTED_C_SYMBOL \o <<"(", "n", " ", "m", ")">>,
     ADD_EXPORTED_C_SYMBOL \o <<"(", "a", ")", " ">>
        \o ADD_EXPORTED_SYMBOL \o <<"(", "f", ",", "\"", "n", "\"", ")">>,
     ADD_EXPORTED_C_SYMBOL \o <<"(">> \o ADD_EXPORTED_C_SYMBOL \o <<"(", "n", ")", ")">>,
     <<"/", "/", " ", "n">>,
     <<>>}

\* The state at line 233 of a tinysys run whose headers declare nothing:
\* nanoapp_loader.cc holds up to MaxExportLines of the lines above.
InitExports ==
    /\ pc = "allowed"
    /\ observed_symbols = <<>>
    /\ allowed_symbols = <<>>
    /\ disallowed_symbols_list = <<>>
    /\ stdout = <<Printed("banner", 0, <<>>), Printed("count", 0, <<"nanoapp.so">>)>>
    /\ exit_status = <<>>
    /\ error = "none"
    /\ io_log = <<Io("run", "elf_reader")>>
    /\ \E lines \in SeqsUpTo(ExportLines, MaxExportLines), symbol_list \in SymbolListChoices :
        World(ReaderOk(JoinLines(DumpHeader)), TRUE, Listing(<<>>), "tinysys", Parsed(<<>>),
              Unparsed, Unparsed, File([i \in 1..Len(lines) |-> Line(lines[i])]), symbol_list,
              Missing, [path |-> None, file |-> Missing])

NextExports == AllowSymbols

SpecExports == InitExports /\ [][NextExports]_vars

\* ------------------------------------------------------------ the extractor alone

\* Longest run of data rows after the header block, and most words in a row.
MaxRows == 2
MaxTokens == 3

\* The words of a data row: the undefined marker and one other word, which
\* serves as a name and as another section indicator.
Tokens == {UND, <<"a">>}

\* Rows of single-spaced words, and rows indented with words two blanks apart.
Spacings == {[lead |-> <<>>, sep |-> <<" ">>], [lead |-> <<" ", " ">>, sep |-> <<" ", "\t">>]}

\* The dumps the extractor is tried on: a header block (real, or reading as
\* undefined rows) and up to MaxRows rows of up to MaxTokens words; and dumps
\* shorter than the header block.
ExtractorDumps ==
    {JoinLines(header \o [i \in 1..Len(rows) |-> JoinWords(rows[i], sp.lead, sp.sep)]) :
        header \in {DumpHeader, UndHeader},
        rows \in SeqsUpTo(SeqsUpTo(Tokens, MaxTokens), MaxRows),
        sp \in Spacings}
    \cup {JoinLines(SubSeq(UndHeader, 1, k)) : k \in 0..(NUM_ROWS_TO_DISCARD - 1)}

InitExtractor ==
    /\ Start
    /\ \E reader \in {ReaderOk(out) : out \in ExtractorDumps} :
        World(reader, TRUE, Listing(<<>>), "tinysys", Parsed(<<>>),
              Unparsed, Unparsed, File(<<>>), File(<<>>), Missing,
              [path |-> None, file |-> Missing])

NextExtractor == ObserveSymbols

SpecExtractor == InitExtractor /\ [][NextExtractor]_vars

\* ------------------------------------------------------------ env_setup.py

\* Most variables one target configures, and most lines the user types.
MaxEnvVars == 2
MaxAnswers == 2

\* The state of check_nanoapp_symbols.py, which env_setup.py never touches.
checker == <<observed_symbols, allowed_symbols, disallowed_symbols_list, inputs>>

\* Python: s.lower()
Lower(s) ==
    LET ascii_uppercase ==
            <<"A", "B", "C", "D", "E", "F", "G", "H", "I", "J", "K", "L", "M",
              "N", "O", "P", "Q", "R", "S", "T", "U", "V", "W", "X", "Y", "Z">>
        ascii_lowercase ==
            <<"a", "b", "c", "d", "e", "f", "g", "h", "i", "j", "k", "l", "m",
              "n", "o", "p", "q", "r", "s", "t", "u", "v", "w", "x", "y", "z">>
    IN [i \in 1..Len(s) |->
           IF \E k \in 1..Len(ascii_uppercase) : ascii_uppercase[k] = s[i]
           THEN ascii_lowercase[CHOOSE k \in 1..Len(ascii_uppercase) : ascii_uppercase[k] = s[i]]
           ELSE s[i]]

\* lines 45-46: expanduser(expandvars(path)), HOME being the user's home
\* directory; no path of the model names a shell variable, so expandvars
\* leaves it alone.
_get_canonical_path(path) ==
    LET HOME == <<"/", "h">>
    IN IF path # <<>> /\ path[1] = "~" /\ (Len(path) = 1 \/ path[2] = "/")
       THEN HOME \o Tail(path)
       ELSE path

\* line 155: [\w\-] under re.ASCII
WordChar == IdentChar \cup {"-"}

\* line 155: re.match(r"^[\w\-]+$", value): $ also matches before a final newline
IsWord(value) ==
    LET body == IF value # <<>> /\ value[Len(value)] = "\n"
                THEN SubSeq(value, 1, Len(value) - 1) ELSE value
    IN /\ body # <<>>
       /\ \A i \in 1..Len(body) : body[i] \in WordChar

\* What a validation gives: the expanded value, or the message of fatal_error.
Checked(value) == [fatal |-> "none", value |-> value]
Refused(message) == [fatal |-> message, value |-> <<>>]

\* lines 145-158
_check_single_value(value, v_type, directories) ==
    CASE v_type = "path" ->
            IF _get_canonical_path(value) \in directories
            THEN Checked(_get_canonical_path(value)) ELSE Refused("Path does not exist")
      [] v_type = "file" -> Refused("File does not exist")
      [] v_type = "value" ->
            IF IsWord(value) THEN Checked(_get_canonical_path(value)) ELSE Refused("Invalid value")
      [] OTHER -> Refused("Unknown value type")

\* line 160: the element type of a list type
ElementType(env_type) ==
    CASE env_type = "list[path]" -> "path"
      [] env_type = "list[file]" -> "file"
      [] OTHER -> "value"

\* lines 162-163: the words are checked in order and joined with ":"; the
\* first word refused ends the process
RECURSIVE CheckWords(_, _, _, _, _)
CheckWords(words, v_type, directories, i, joined) ==
    IF i > Len(words) THEN Checked(joined)
    ELSE LET one == _check_single_value(words[i], v_type, directories)
         IN IF one.fatal # "none" THEN one
            ELSE CheckWords(words, v_type, directories, i + 1,
                            IF i = 1 THEN one.value ELSE joined \o <<":">> \o one.value)

\* lines 127-167
_assert_and_expand_env_variable(env_type, env_value, directories) ==
    IF env_type \in {"list[path]", "list[file]", "list[value]"}
    THEN CheckWords(Split(env_value), ElementType(env_type), directories, 1, <<>>)
    ELSE _check_single_value(env_value, env_type, directories)

\* What an action gives: the message of fatal_error or the exception raised,
\* the directories and the unread input it leaves, and what it asked.
Outcome(fatal, raised, directories, lines, io) == [fatal |-> fatal, raised |-> raised, dirs |-> directories, stdin |-> lines, io |-> io]

\* lines 116-124: git clone
GitClone(dest, directories, lines, git_result, io) ==
    IF git_result = "ok" THEN Outcome("none", "none", directories \cup {dest}, lines, io)
    ELSE IF git_result = "fails" THEN Outcome("Error cloning repository", "none", directories, lines, io)
    ELSE Outcome("git command not found", "none", directories, lines, io)

\* lines 96-124
_action_clone_repo(url, branch, dest, directories, lines, git_result) ==
    IF dest \in directories
    THEN IF lines = <<>> THEN Outcome("none", "EOFError", directories, lines, <<>>)
         ELSE IF Head(lines) = <<>> \/ Lower(Head(lines)) = <<"n">>
              THEN Outcome("none", "none", directories, Tail(lines), <<[op |-> "override", path |-> "", index |-> 0, text |-> Head(lines)]>>)
              ELSE GitClone(dest, directories \ {dest}, Tail(lines), git_result, <<[op |-> "override", path |-> "", index |-> 0, text |-> Head(lines)]>>)
    ELSE GitClone(dest, directories, lines, git_result, <<>>)

\* lines 170-176: the function named by the first element, given the others
_run_action(action_and_args, directories, lines, git_result) ==
    IF action_and_args[1] = "action_clone_repo"
    THEN _action_clone_repo(_get_canonical_path(action_and_args[2]), _get_canonical_path(action_and_args[3]), _get_canonical_path(action_and_args[4]), directories, lines, git_result)
    ELSE Outcome("Unknown action", "none", directories, lines, <<>>)

\* One "<name>=<value>" line of the file.
Pair(name, value) == [name |-> name, value |-> value]

\* lines 237-241: fixed_env_map, one entry standing for its four
fixed_env_map == <<Pair("CHRE_PLATFORM", <<"t">>)>>

\* One step of the wizard about the variable at position i, for the record
\* of what happened in order.
Event(op, i, text) == [op |-> op, path |-> target_envs_configs[i].name, index |-> i, text |-> text]

\* shell_util.py lines 31-34: fatal_error prints the message and exits with 1
FatalError(message) ==
    /\ pc' = "done"
    /\ error' = message
    /\ exit_status' = <<1>>

\* lines 281-282
StartWizard ==
    /\ all_env_names' = {fixed_env_map[i].name : i \in 1..Len(fixed_env_map)}
    /\ env_var_pairs' = fixed_env_map
    /\ var_index' = 1
    /\ pc' = "prompt"
    /\ UNCHANGED <<stdout, exit_status, error>>

\* main, lines 343-358: the file of an earlier run is shown and kept unless
\* the user answers otherwise
KeepOrOverride ==
    /\ pc = "main"
    /\ IF ~env_vars_file.exists
       THEN /\ StartWizard
            /\ UNCHANGED <<stdin, io_log>>
       ELSE IF stdin = <<>>
       THEN /\ Abort("EOFError")
            /\ UNCHANGED <<stdin, io_log, stdout, all_env_names, env_var_pairs, var_index>>
       ELSE /\ stdin' = Tail(stdin)
            /\ io_log' = Append(io_log, [op |-> "keep", path |-> "", index |-> 0, text |-> Head(stdin)])
            /\ IF Head(stdin) = <<>> \/ Lower(Head(stdin)) = <<"y">>
               THEN /\ stdout' = Append(stdout, Printed("env_vars", Len(env_vars_file.lines), env_vars_file.lines))
                    /\ pc' = "done"
                    /\ exit_status' = <<0>>
                    /\ UNCHANGED <<error, all_env_names, env_var_pairs, var_index>>
               ELSE StartWizard
    /\ UNCHANGED <<target_envs_configs, env_vars_file, dirs, git, checker>>

\* Mutation of AfterInput: the continue of line 303 is lost, so a variable
\* with a default is given its default whatever the user entered.
AfterInputFallingThrough(env_var, user_entered_value) ==
    IF env_var.default = <<>>
    THEN (IF user_entered_value # <<>> THEN "entered" ELSE "no_default")
    ELSE IF env_var.default_action # <<>> THEN "default_action"
    ELSE "default_value"

\* lines 298-310: where the loop body goes once the input is read
AfterInput(env_var, user_entered_value) ==
    IF user_entered_value # <<>> THEN "entered"
    ELSE IF env_var.default = <<>> THEN "no_default"
    ELSE IF env_var.default_action # <<>> THEN "default_action"
    ELSE "default_value"

\* Mutation of Record: every pair is written to the file as soon as it is
\* known.
RecordWritingThrough(pair) ==
    /\ env_var_pairs' = Append(env_var_pairs, pair)
    /\ env_vars_file' = [exists |-> TRUE, lines |-> Append(env_var_pairs, pair)]

\* lines 302 and 314: the pair is kept in memory
Record(pair) ==
    /\ env_var_pairs' = Append(env_var_pairs, pair)
    /\ UNCHANGED env_vars_file

\* lines 300-303 and 312-314: the value is validated and, if accepted,
\* recorded, log being what has happened so far; the loop goes to the next
\* variable
ValidateAndRecord(log, env_var, value) ==
    IF env_var.type = Unset
    THEN /\ FatalError("The environment variable doesn't have the field")
         /\ io_log' = log
         /\ UNCHANGED <<env_var_pairs, env_vars_file, var_index>>
    ELSE \E checked \in {_assert_and_expand_env_variable(env_var.type, value, dirs)} :
            IF checked.fatal # "none"
            THEN /\ FatalError(checked.fatal)
                 /\ io_log' = Append(log, Event("validate", var_index, value))
                 /\ UNCHANGED <<env_var_pairs, env_vars_file, var_index>>
            ELSE /\ Record(Pair(env_var.name, checked.value))
                 /\ io_log' = log \o <<Event("validate", var_index, value), Event("record", var_index, checked.value)>>
                 /\ var_index' = var_index + 1
                 /\ pc' = "prompt"
                 /\ UNCHANGED <<exit_status, error>>

\* lines 283-307: the next variable is announced and the user's line read
PromptVariable ==
    /\ pc = "prompt"
    /\ var_index <= Len(target_envs_configs)
    /\ \E env_var \in {target_envs_configs[var_index]} :
          IF env_var.name \in all_env_names
          THEN /\ FatalError("Duplicate env variable name")
               /\ UNCHANGED <<stdin, io_log, all_env_names, env_var_pairs, env_vars_file, var_index>>
          ELSE IF stdin = <<>>
          THEN /\ Abort("EOFError")
               /\ all_env_names' = all_env_names \cup {env_var.name}
               /\ UNCHANGED <<stdin, io_log, env_var_pairs, env_vars_file, var_index>>
          ELSE \E user_entered_value \in {Strip(Head(stdin))} :
               \E branch \in {AfterInput(env_var, user_entered_value)} :
                  /\ stdin' = Tail(stdin)
                  /\ all_env_names' = all_env_names \cup {env_var.name}
                  /\ IF branch = "entered"
                     THEN ValidateAndRecord(Append(io_log, Event("input", var_index, Head(stdin))), env_var, user_entered_value)
                     ELSE /\ io_log' = Append(io_log, Event("input", var_index, Head(stdin)))
                          /\ UNCHANGED <<env_var_pairs, env_vars_file, var_index>>
                          /\ IF branch = "no_default"
                             THEN FatalError("must be provided")
                             ELSE /\ pc' = branch
                                  /\ UNCHANGED <<exit_status, error>>
    /\ UNCHANGED <<target_envs_configs, stdout, dirs, git, checker>>

\* lines 309-310: the default action of the variable is run
RunDefaultAction ==
    /\ pc = "default_action"
    /\ \E r \in {_run_action(target_envs_configs[var_index].default_action, dirs, stdin, git)} :
          /\ io_log' = Append(io_log, Event("action", var_index, <<>>)) \o r.io
          /\ dirs' = r.dirs
          /\ stdin' = r.stdin
          /\ IF r.fatal # "none" THEN FatalError(r.fatal)
             ELSE IF r.raised # "none" THEN Abort(r.raised)
             ELSE /\ pc' = "default_value"
                  /\ UNCHANGED <<exit_status, error>>
    /\ UNCHANGED <<target_envs_configs, stdout, all_env_names, env_var_pairs, var_index, env_vars_file, git, checker>>

\* lines 311-314: the default value is validated and recorded
UseDefaultValue ==
    /\ pc = "default_value"
    /\ ValidateAndRecord(io_log, target_envs_configs[var_index], target_envs_configs[var_index].default[1])
    /\ UNCHANGED <<target_envs_configs, stdin, stdout, all_env_names, dirs, git, checker>>

\* lines 317-318 and 360-369: every variable is recorded; the list of names
\* is added, the file created or overwritten and the pairs printed.  The
\* names joined in sorted order are kept as the set they come from.
WriteEnvVars ==
    /\ pc = "prompt"
    /\ var_index > Len(target_envs_configs)
    /\ \E pairs \in {Append(env_var_pairs, Pair("CHRE_ENVS", all_env_names))} :
          /\ env_var_pairs' = pairs
          /\ env_vars_file' = [exists |-> TRUE, lines |-> pairs]
          /\ stdout' = Append(stdout, Printed("env_vars", Len(pairs), pairs))
    /\ io_log' = Append(io_log, [op |-> "write", path |-> "env_vars.txt", index |-> 0, text |-> <<>>])
    /\ pc' = "done"
    /\ exit_status' = <<0>>
    /\ UNCHANGED <<target_envs_configs, stdin, error, all_env_names, var_index, dirs, git, checker>>

\* One variable of a target's configuration: default is <<>> when the
\* configuration gives none and <<value>> when it gives one, default_action
\* the action's name followed by its arguments.
EnvVar(name, type, default, default_action) == [name |-> name, type |-> type, default |-> default, default_action |-> default_action]

\* The directory the configured clone fills.
Repo == <<"~", "/", "r">>

CloneRepo == <<"action_clone_repo", <<"u">>, <<"b">>, Repo>>

\* A variable with neither default nor action, one with a default, one whose
\* default is the directory its action clones, one with an action and no
\* default, one whose action does not exist, and one whose default is the
\* empty string.
EnvVarChoices ==
    {EnvVar("A", "value", <<>>, <<>>),
     EnvVar("B", "value", <<<<"d">>>>, <<>>),
     EnvVar("C", "path", <<Repo>>, CloneRepo),
     EnvVar("D", "value", <<>>, CloneRepo),
     EnvVar("E", "value", <<<<"d">>>>, <<"action_unknown">>),
     EnvVar("G", "value", <<<<>>>>, CloneRepo)}

\* What the user may type on one line: nothing, blanks, a word, something
\* that is not a word.
Answers == {<<>>, <<" ">>, <<"y">>, <<"!">>}

\* The file of an earlier run.
EarlierFile == [exists |-> TRUE, lines |-> <<Pair("OLD", <<"v">>)>>]

\* check_nanoapp_symbols.py is not running: it has read and computed nothing.
NoChecker ==
    /\ observed_symbols = <<>>
    /\ allowed_symbols = <<>>
    /\ disallowed_symbols_list = <<>>
    /\ elf_reader = ReaderOk(<<>>)
    /\ listdir_chre = NoListing
    /\ cparser = <<>>
    /\ fs = <<>>

\* The state at line 343, the configuration loaded and the target found.
InitSetup ==
    /\ pc = "main"
    /\ stdout = <<>>
    /\ exit_status = <<>>
    /\ error = "none"
    /\ io_log = <<>>
    /\ NoChecker
    /\ environ = [CHRE_PLATFORM |-> "t"]
    /\ args = [platform_and_target |-> "t-nanoapp"]
    /\ target_envs_configs \in SeqsUpTo(EnvVarChoices, MaxEnvVars)
    /\ stdin \in SeqsUpTo(Answers, MaxAnswers)
    /\ all_env_names = {}
    /\ env_var_pairs = <<>>
    /\ var_index = 0
    /\ env_vars_file \in {[exists |-> FALSE, lines |-> <<>>], EarlierFile}
    /\ \E world \in {[dirs |-> {}, git |-> "ok"], [dirs |-> {}, git |-> "fails"], [dirs |-> {_get_canonical_path(Repo)}, git |-> "ok"]} :
          /\ dirs = world.dirs
          /\ git = world.git

NextSetup ==
    \/ KeepOrOverride
    \/ PromptVariable
    \/ RunDefaultAction
    \/ UseDefaultValue
    \/ WriteEnvVars

SpecSetup == InitSetup /\ [][NextSetup]_vars

\* ------------------------------------------------------------ flash.py

\* Python: needle in haystack
In(needle, haystack) ==
    \E i \in 1..(Len(haystack) - Len(needle) + 1) : SubSeq(haystack, i, i + Len(needle) - 1) = needle

\* shell_util.py lines 86-91: re.search(pattern, string, re.IGNORECASE); the
\* patterns of flash.py are plain text
Search(pattern, string) == In(Lower(pattern), Lower(string))

\* shell_util.py lines 86-91, and the default is_successful=None of line 113
not_have(pattern) == [kind |-> "not_have", pattern |-> pattern]
has(pattern) == [kind |-> "has", pattern |-> pattern]
NoPredicate == [kind |-> "none", pattern |-> <<>>]

\* shell_util.py line 118: is_successful is None or is_successful(output)
HasResult(is_successful, output) ==
    CASE is_successful.kind = "none" -> TRUE
      [] is_successful.kind = "not_have" -> ~Search(is_successful.pattern, output)
      [] OTHER -> Search(is_successful.pattern, output)

\* flash.py lines 37, 38 and 41: the texts looked for
NoDevices == <<"n", "o", " ", "d", "e", "v", "i", "c", "e", "s">>
RebootingDevice == <<"R", "e", "b", "o", "o", "t", "i", "n", "g", " ", "d", "e", "v", "i", "c", "e", " ", "f", "o", "r", " ", "n", "e", "w", " ", "s", "e", "t", "t", "i", "n", "g", "s", " ", "t", "o", " ", "t", "a", "k", "e", " ", "e", "f", "f", "e", "c", "t">>
RemountSucceeded == <<"R", "e", "m", "o", "u", "n", "t", " ", "s", "u", "c", "c", "e", "e", "d", "e", "d">>
ErrorWord == <<"e", "r", "r", "o", "r">>

\* The commands of flash.py, without the paths they name.
Adb ==
    [root_remount |-> "adb root && adb remount -R",
     wait_for_device |-> "adb wait-for-device",
     root |-> "root",
     mkdir |-> "adb shell mkdir -p",
     push_so |-> "adb push *.so",
     push_header |-> "adb push *.napp_header",
     reboot |-> "adb reboot"]

\* What the shell may answer to a command: a remount done, refused for want
\* of a device, or followed by a reboot; a push done or failed, by adb's word
\* or the shell's; nothing or a complaint for the rest.
NoDevicesFound == <<"a", "d", "b", ":", " ", "n", "o", " ", "d", "e", "v", "i", "c", "e", "s", "/", "e", "m", "u", "l", "a", "t", "o", "r", "s", " ", "f", "o", "u", "n", "d">>
PushFailed == <<"a", "d", "b", ":", " ", "E", "r", "r", "o", "r", ":", " ", "f", "a", "i", "l", "e", "d", " ", "t", "o", " ", "c", "o", "p", "y">>

ShellOutputs(cmd) ==
    CASE cmd = Adb.root_remount -> {RemountSucceeded, RebootingDevice, NoDevicesFound}
      [] cmd = Adb.root -> {RemountSucceeded, <<"b", "a", "s", "h", ":", " ", "r", "o", "o", "t", ":", " ", "c", "o", "m", "m", "a", "n", "d", " ", "n", "o", "t", " ", "f", "o", "u", "n", "d">>}
      [] cmd \in {Adb.push_so, Adb.push_header} -> {<<>>, PushFailed, NoDevicesFound}
      [] OTHER -> {<<>>, NoDevicesFound}

\* One command sent, with what came back and what run made of it.
Sent(cmd, output, has_result) == [op |-> "sendline", path |-> cmd, text |-> output, ok |-> has_result]

\* shell_util.py line 132: exit(-1), which the shell sees as 255
ExitStatus(n) == n % 256

\* Mutation of Run: a failed command is reported and the script goes on.
RunGoingOn(cmd, is_successful, show_output, output, next, said) ==
    \E has_result \in {HasResult(is_successful, output)} :
       /\ io_log' = Append(io_log, Sent(cmd, output, has_result))
       /\ stdout' = stdout \o <<Printed(IF has_result THEN "OK" ELSE "FAILED", 0, <<cmd>>)>> \o (IF ~has_result \/ show_output THEN <<Printed("output", Len(output), output)>> ELSE <<>>) \o said
       /\ pc' = next
       /\ UNCHANGED exit_status

\* shell_util.py lines 112-134: the command is sent and its output read; the
\* verdict is printed, with the output if asked for or if the command failed;
\* a failed command ends the process.  On success the script goes on at
\* next, having printed said.
Run(cmd, is_successful, show_output, output, next, said) ==
    \E has_result \in {HasResult(is_successful, output)} :
       /\ io_log' = Append(io_log, Sent(cmd, output, has_result))
       /\ stdout' = stdout \o <<Printed(IF has_result THEN "OK" ELSE "FAILED", 0, <<cmd>>)>> \o (IF ~has_result \/ show_output THEN <<Printed("output", Len(output), output)>> ELSE <<>>) \o (IF has_result THEN said ELSE <<>>)
       /\ IF has_result
          THEN /\ pc' = next
               /\ UNCHANGED exit_status
          ELSE /\ pc' = "done"
               /\ exit_status' = <<ExitStatus(-1)>>

\* What no step of flash.py changes.
flash_frame == <<checker, wizard>>

\* lines 45-46
CheckInstallLocation ==
    /\ pc = "flash"
    /\ IF environ.TARGET_INSTALL_LOCATION \in {Unset, ""}
       THEN /\ FatalError("TARGET_INSTALL_LOCATION is not set")
       ELSE /\ pc' = "root"
            /\ UNCHANGED <<exit_status, error>>
    /\ UNCHANGED <<stdout, io_log, flash_frame>>

\* The two calls of root, lines 57 and 78: where each is and where it
\* returns to.
RootCalls ==
    {[remount |-> "root", wait |-> "root_wait", again |-> "root_again", return |-> "mkdir"],
     [remount |-> "reroot", wait |-> "reroot_wait", again |-> "reroot_again", return |-> "complete"]}

\* lines 37-39
RootRemount ==
    \E call \in RootCalls, output \in ShellOutputs(Adb.root_remount) :
       /\ pc = call.remount
       /\ IF In(RebootingDevice, output)
          THEN Run(Adb.root_remount, not_have(NoDevices), FALSE, output, call.wait, <<Printed("rebooted to remount", 0, <<>>)>>)
          ELSE Run(Adb.root_remount, not_have(NoDevices), FALSE, output, call.return, <<>>)
       /\ UNCHANGED <<error, flash_frame>>

\* line 40
RootWait ==
    \E call \in RootCalls, output \in ShellOutputs(Adb.wait_for_device) :
       /\ pc = call.wait
       /\ Run(Adb.wait_for_device, NoPredicate, FALSE, output, call.again, <<>>)
       /\ UNCHANGED <<error, flash_frame>>

\* line 41
RootAgain ==
    \E call \in RootCalls, output \in ShellOutputs(Adb.root) :
       /\ pc = call.again
       /\ Run(Adb.root, has(RemountSucceeded), FALSE, output, call.return, <<>>)
       /\ UNCHANGED <<error, flash_frame>>

\* line 64
Mkdir ==
    \E output \in ShellOutputs(Adb.mkdir) :
       /\ pc = "mkdir"
       /\ Run(Adb.mkdir, NoPredicate, FALSE, output, "push_so", <<>>)
       /\ UNCHANGED <<error, flash_frame>>

\* line 74: where the script goes once the pushes are done
AfterPush == IF args.reboot THEN "reboot" ELSE "warn"

\* lines 65-69
PushSo ==
    \E output \in ShellOutputs(Adb.push_so) :
       /\ pc = "push_so"
       /\ Run(Adb.push_so, not_have(ErrorWord), TRUE, output, IF environ.CHRE_TARGET_TYPE = "nanoapp" THEN "push_header" ELSE AfterPush, <<>>)
       /\ UNCHANGED <<error, flash_frame>>

\* lines 70-72
PushHeader ==
    \E output \in ShellOutputs(Adb.push_header) :
       /\ pc = "push_header"
       /\ Run(Adb.push_header, not_have(ErrorWord), TRUE, output, AfterPush, <<>>)
       /\ UNCHANGED <<error, flash_frame>>

\* line 75
Reboot ==
    \E output \in ShellOutputs(Adb.reboot) :
       /\ pc = "reboot"
       /\ Run(Adb.reboot, NoPredicate, FALSE, output, "wait", <<>>)
       /\ UNCHANGED <<error, flash_frame>>

\* line 76
WaitForDevice ==
    \E output \in ShellOutputs(Adb.wait_for_device) :
       /\ pc = "wait"
       /\ Run(Adb.wait_for_device, NoPredicate, FALSE, output, "reroot", <<>>)
       /\ UNCHANGED <<error, flash_frame>>

\* line 79, after which the script ends
Complete ==
    /\ pc = "complete"
    /\ stdout' = Append(stdout, Printed("Installation is complete", 0, <<>>))
    /\ pc' = "done"
    /\ exit_status' = <<0>>
    /\ UNCHANGED <<io_log, error, flash_frame>>

\* line 81, after which the script ends
Warn ==
    /\ pc = "warn"
    /\ stdout' = Append(stdout, Printed("Please reboot the device", 0, <<>>))
    /\ pc' = "done"
    /\ exit_status' = <<0>>
    /\ UNCHANGED <<io_log, error, flash_frame>>

\* The state at line 45: the environment as env_setup.py left it, or not.
InitFlash ==
    /\ pc = "flash"
    /\ stdout = <<>>
    /\ exit_status = <<>>
    /\ error = "none"
    /\ io_log = <<>>
    /\ NoChecker
    /\ NoWizard
    /\ \E location \in {Unset, "", "/vendor/dsp"}, target_type \in {Unset, "nanoapp", "chre"} :
          environ = [TARGET_INSTALL_LOCATION |-> location, CHRE_BUILD_TARGET |-> "t", CHRE_TARGET_TYPE |-> target_type]
    /\ args \in [reboot : BOOLEAN]

NextFlash ==
    \/ CheckInstallLocation
    \/ RootRemount
    \/ RootWait
    \/ RootAgain
    \/ Mkdir
    \/ PushSo
    \/ PushHeader
    \/ Reboot
    \/ WaitForDevice
    \/ Complete
    \/ Warn

SpecFlash == InitFlash /\ [][NextFlash]_vars

\* ------------------------------------------------------------ properties

\* The matcher has returned.
Matched == pc = "report" \/ (pc = "done" /\ error = "none")

\* p is an initial segment of s.
HasPrefix(s, p) == \E k \in 0..Len(s) : SubSeq(s, 1, k) = p

\* The literal prefixes of the wildcard entry a: the part before its marker.
BeforeMarker(a) ==
    {SubSeq(a, 1, k) : k \in {j \in 0..(Len(a) - 1) :
                                a[j + 1] = "*" /\ \A i \in 1..j : a[i] # "*"}}

\* s is an entry of the allowed list, or starts with the literal prefix of one
\* of its wildcard entries.
Covered(s, allowed_syms) ==
    \/ \E i \in 1..Len(allowed_syms) : allowed_syms[i] = s
    \/ \E i \in 1..Len(allowed_syms) : \E p \in BeforeMarker(allowed_syms[i]) : HasPrefix(s, p)

\* C1: with no wildcard marker in any allowed entry, the matcher returns
\* exactly the observed symbols that are not allowed entries.
C1_NoWildcardSetDifference ==
    (Matched /\ \A i \in 1..Len(allowed_symbols) : "*" \notin Range(allowed_symbols[i]))
        => /\ Range(disallowed_symbols_list)
                = {s \in Range(observed_symbols) :
                       \A i \in 1..Len(allowed_symbols) : allowed_symbols[i] # s}

\* C1 witness: without wildcards, one observed symbol was allowed and another
\* was returned.
C1_Witness ==
    /\ Matched
    /\ \A i \in 1..Len(allowed_symbols) : "*" \notin Range(allowed_symbols[i])
    /\ disallowed_symbols_list # <<>>
    /\ Range(observed_symbols) \cap Range(allowed_symbols) # {}

\* C2: an observed symbol is returned exactly when it is no entry of the
\* allowed list and starts with the literal prefix of none of its wildcard
\* entries; nothing else is returned; {"foo*"} against foobar, foo, barfoo
\* returns barfoo alone.
C2_WildcardPrefixMatch ==
    Matched =>
        /\ Range(disallowed_symbols_list)
                = {s \in Range(observed_symbols) : ~Covered(s, allowed_symbols)}
        /\ (observed_symbols = <<foobar, foo, barfoo>> /\ allowed_symbols = <<fooStar>>)
                => disallowed_symbols_list = <<barfoo>>

\* C2 witness: the wildcard-absorption example has been matched.
C2_Witness ==
    /\ Matched
    /\ observed_symbols = <<foobar, foo, barfoo>>
    /\ allowed_symbols = <<fooStar>>
    /\ disallowed_symbols_list = <<barfoo>>

\* C3: with the bare marker among the allowed entries the matcher returns
\* nothing, whatever is observed and whatever else is allowed.
C3_BareWildcardAllowsAll ==
    (Matched /\ \E i \in 1..Len(allowed_symbols) : allowed_symbols[i] = <<"*">>)
        => disallowed_symbols_list = <<>>

\* C3 witness: the bare marker stood beside another entry, and an observed
\* symbol that is no entry was allowed by it.
C3_Witness ==
    /\ Matched
    /\ \E i \in 1..Len(allowed_symbols) : allowed_symbols[i] = <<"*">>
    /\ \E i \in 1..Len(allowed_symbols) : allowed_symbols[i] # <<"*">>
    /\ Range(observed_symbols) \ Range(allowed_symbols) # {}
    /\ disallowed_symbols_list = <<>>

\* The symbol names the failure listing printed, and whether the success
\* message or the failure banner was printed.
PrintedSymbols == {stdout[i].text : i \in {j \in 1..Len(stdout) : stdout[j].kind = "symbol"}}
SuccessPrinted == \E i \in 1..Len(stdout) : stdout[i].kind = "resolvable"
FailurePrinted == \E i \in 1..Len(stdout) : stdout[i].kind \in {"unresolvable", "symbol"}

\* C4: a run that reaches the report ends either with a non-empty disallowed
\* list, each of its symbols printed and status 1, or with an empty one, the
\* success message and status 0; status 0 is reached only when every observed
\* symbol is covered by the allowed list.
C4_ReportOutcome ==
    /\ (pc = "done" /\ error = "none")
        => \/ /\ disallowed_symbols_list # <<>>
              /\ Exited(1)
              /\ PrintedSymbols = Range(disallowed_symbols_list)
              /\ ~SuccessPrinted
           \/ /\ disallowed_symbols_list = <<>>
              /\ Exited(0)
              /\ SuccessPrinted
              /\ ~FailurePrinted
    /\ Exited(0) => \A s \in Range(observed_symbols) : Covered(s, allowed_symbols)

\* C4 witness: a run reported two uncovered symbols and exited with 1.
C4_Witness ==
    /\ pc = "done"
    /\ error = "none"
    /\ Exited(1)
    /\ Len(disallowed_symbols_list) = 2
    /\ allowed_symbols # <<>>

\* The rows of a dump after its first 4 lines.
DataRows(out) == SubSeq(SplitLines(out), 4 + 1, Len(SplitLines(out)))

\* A row whose second-to-last word is the undefined marker.
IsUndefinedRow(row) ==
    /\ Len(Split(row)) >= 2
    /\ Split(row)[Len(Split(row)) - 1] = <<"U", "N", "D">>

\* The last words of the undefined rows of a dump, in row order.
UndefinedNames(out) ==
    LET rows == SelectSeq(DataRows(out), IsUndefinedRow)
    IN [i \in 1..Len(rows) |-> Split(rows[i])[Len(Split(rows[i]))]]

\* A data row of fewer than 2 words.
HasShortRow(out) == \E i \in 1..Len(DataRows(out)) : Len(Split(DataRows(out)[i])) < 2

\* C5: for every dump the tool prints, the extractor returns the names of the
\* rows after the first 4 lines whose second-to-last word is UND, in row order.
C5_ExtractorReturnsUndefinedNames ==
    (pc # "extract" /\ elf_reader.kind = "ok")
        => /\ error = "none"
           /\ observed_symbols = UndefinedNames(elf_reader.out)

\* The part of C5 the extractor keeps: when every data row has 2 words or
\* more, it returns the undefined names.
C5_OnWellFormedRows ==
    (pc # "extract" /\ elf_reader.kind = "ok" /\ ~HasShortRow(elf_reader.out))
        => /\ error = "none"
           /\ observed_symbols = UndefinedNames(elf_reader.out)

\* C6: a data row of fewer than 2 words does not stop the extractor; the row
\* is skipped and the names of the other rows are returned.
C6_ShortRowSkipped ==
    (pc # "extract" /\ elf_reader.kind = "ok" /\ HasShortRow(elf_reader.out))
        => /\ pc = "allowed"
           /\ error # "ValueError"
           /\ observed_symbols = UndefinedNames(elf_reader.out)

\* C7: the tool is run at most once; when it cannot be run or exits non-zero
\* the run ends at once with the exception and status 1, and prints neither
\* the success message nor a listing.
C7_ToolFailureIsFatal ==
    /\ Cardinality({i \in 1..Len(io_log) : io_log[i].op = "run"}) <= 1
    /\ (elf_reader.kind # "ok" /\ pc # "extract")
        => /\ pc = "done"
           /\ Exited(1)
           /\ error \in {"KeyError", "OSError", "CalledProcessError"}
           /\ ~SuccessPrinted
           /\ ~FailurePrinted
           /\ \A i \in 1..Len(io_log) : io_log[i] = Io("run", "elf_reader")

\* C7 witness: the tool exited non-zero and the run ended with status 1.
C7_Witness ==
    /\ pc = "done"
    /\ elf_reader.kind = "nonzero"
    /\ error = "CalledProcessError"
    /\ Exited(1)
    /\ io_log = <<Io("run", "elf_reader")>>

\* C8: with a CHRE_PLATFORM that has no profile the run never gets past
\* computing the allowed symbols: it ends with an exception and status 1, a
\* KeyError when the run came as far as the profile lookup, and prints
\* neither the success message nor a listing.
C8_UnknownPlatformAborts ==
    environ.CHRE_PLATFORM \notin {"tinysys", "qsh"}
        => /\ pc \in {"extract", "allowed", "done"}
           /\ allowed_symbols = <<>>
           /\ ~Exited(0)
           /\ ~SuccessPrinted
           /\ ~FailurePrinted
           /\ pc = "done" => (Exited(1) /\ error # "none")
           /\ (pc = "done" /\ observed_symbols # <<>> /\ environ.ANDROID_BUILD_TOP
                    /\ listdir_chre.ok)
                => error = "KeyError"

\* C8 witness: the symbols were extracted, the platform was unknown, and the
\* run ended with KeyError and status 1.
C8_Witness ==
    /\ pc = "done"
    /\ environ.CHRE_PLATFORM = "x86"
    /\ observed_symbols # <<>>
    /\ error = "KeyError"
    /\ Exited(1)

\* The headers of the run: those listed under chre_api/chre, chre.h and the
\* platform's own.
SourceHeaders ==
    listdir_chre.files \o <<"chre.h">> \o PLATFORM_INFO[environ.CHRE_PLATFORM].header_files

\* The four sources of allowed symbols: the functions the headers declare,
\* the names of the export-macro lines, the trimmed lines of the platform's
\* list file when it exists, the trimmed lines of the extra file when given.
HeaderNames ==
    UNION {Range(cparser[SourceHeaders[i]].functions) : i \in 1..Len(SourceHeaders)}

ExportNames ==
    LET files == PLATFORM_INFO[environ.CHRE_PLATFORM].exported_list_files
    IN UNION {{ExportedName(fs[files[i]].lines[j]).name :
                    j \in {k \in 1..Len(fs[files[i]].lines) :
                                ExportedName(fs[files[i]].lines[k]).matched}} :
              i \in 1..Len(files)}

PlatformListNames ==
    LET path == PLATFORM_INFO[environ.CHRE_PLATFORM].external_symbol_list
    IN IF path # "" /\ fs[path].exists
       THEN {Strip(fs[path].lines[i]) : i \in 1..Len(fs[path].lines)}
       ELSE {}

ExtraNames ==
    IF args.allowed_symbols_file = None THEN {}
    ELSE {Strip(fs[args.allowed_symbols_file].lines[i]) :
                i \in 1..Len(fs[args.allowed_symbols_file].lines)}

\* C9: the allowed list the matcher is given holds exactly the names of the
\* four sources: every header function, every export-macro name, every line
\* of the platform's list file and every line of the extra file.
C9_AllowedIsUnionOfSources ==
    Matched =>
        Range(allowed_symbols)
            = HeaderNames \cup ExportNames \cup PlatformListNames \cup ExtraNames

\* C9 witness: the platform's list file was the only source that held a name,
\* and its names reached the matcher.
C9_Witness ==
    /\ Matched
    /\ HeaderNames = {}
    /\ ExportNames = {}
    /\ ExtraNames = {}
    /\ mallocHook \in PlatformListNames
    /\ mallocHook \in Range(allowed_symbols)

\* The end-to-end scenario: the binary's undefined symbols are chreGetTime and
\* mallocHook, the headers yield chreGetTime, there are no export macros and
\* no platform list.
Scenario ==
    /\ elf_reader.kind = "ok"
    /\ UndefinedNames(elf_reader.out) = <<chreGetTime, mallocHook>>
    /\ environ.ANDROID_BUILD_TOP
    /\ listdir_chre.ok
    /\ environ.CHRE_PLATFORM \in {"tinysys", "qsh"}
    /\ \A i \in 1..Len(SourceHeaders) : cparser[SourceHeaders[i]].ok
    /\ HeaderNames = {chreGetTime}
    /\ \A i \in 1..Len(PLATFORM_INFO[environ.CHRE_PLATFORM].exported_list_files) :
            fs[PLATFORM_INFO[environ.CHRE_PLATFORM].exported_list_files[i]].exists
    /\ ExportNames = {}
    /\ PlatformListNames = {}

\* C10: in the scenario, with an extra file that holds mallocHook the
\* disallowed list is empty and the run exits with 0; with no extra file the
\* disallowed list is mallocHook alone, the name is printed and the run exits
\* with 1.
C10_ExtraFileDecides ==
    /\ (Scenario /\ args.allowed_symbols_file # None
            /\ fs[args.allowed_symbols_file].exists /\ ExtraNames = {mallocHook}
            /\ pc = "done")
        => /\ error = "none"
           /\ disallowed_symbols_list = <<>>
           /\ SuccessPrinted
           /\ Exited(0)
    /\ (Scenario /\ args.allowed_symbols_file = None /\ pc = "done")
        => /\ error = "none"
           /\ disallowed_symbols_list = <<mallocHook>>
           /\ PrintedSymbols = {mallocHook}
           /\ Exited(1)

\* C10 witness: the scenario with the extra file ran to the end and exited
\* with 0.
C10_Witness ==
    /\ Scenario
    /\ ExtraNames = {mallocHook}
    /\ pc = "done"
    /\ Exited(0)

\* The scenario without the extra file ran to the end and exited with 1.
C10_WitnessWithoutExtra ==
    /\ Scenario
    /\ args.allowed_symbols_file = None
    /\ pc = "done"
    /\ Exited(1)

\* The lines of the list files the run read that hold whitespace only.
BlankLinesRead ==
    LET path == PLATFORM_INFO[environ.CHRE_PLATFORM].external_symbol_list
        extra == args.allowed_symbols_file
    IN {i \in 1..(IF path # "" /\ fs[path].exists THEN Len(fs[path].lines) ELSE 0) :
            Range(fs[path].lines[i]) \subseteq Whitespace}
       \cup {i \in 1..(IF extra # None THEN Len(fs[extra].lines) ELSE 0) :
                Range(fs[extra].lines[i]) \subseteq Whitespace}

\* C11: the empty entry a blank line of a list file leaves in the allowed
\* list allows nothing but the empty name: every non-empty observed symbol
\* that the other entries do not cover is returned as disallowed.
C11_BlankEntryRemovesNothing ==
    Matched =>
        LET named == SelectSeq(allowed_symbols, LAMBDA a : a # <<>>)
        IN \A s \in Range(observed_symbols) :
                (s # <<>> /\ ~Covered(s, named)) => s \in Range(disallowed_symbols_list)

\* C11 witness: a list file with a blank line was read, the empty entry
\* reached the matcher, and a non-empty observed symbol was still returned.
C11_Witness ==
    /\ Matched
    /\ BlankLinesRead # {}
    /\ <<>> \in Range(allowed_symbols)
    /\ \E s \in Range(disallowed_symbols_list) : s # <<>>

NoDuplicates(list) == \A i, j \in 1..Len(list) : list[i] = list[j] => i = j

\* The entries of an allowed list that hold no marker, and the literal
\* prefixes of those that do.
EntriesWithoutMarker(allowed_syms) ==
    {a \in Range(allowed_syms) : "*" \notin Range(a)}
PrefixesBeforeMarker(allowed_syms) ==
    UNION {BeforeMarker(a) : a \in Range(allowed_syms)}

\* C15: the set the matcher returns depends only on the set of observed
\* symbols and on the set of allowed entries: reordering either list,
\* repeating its elements, or listing other wildcard entries with the same
\* prefixes leaves the result set as it was; and no symbol occurs twice in
\* the returned list.
C15_ResultDependsOnSetsOnly ==
    [][/\ pc' \in {"report", "again"} => NoDuplicates(disallowed_symbols_list')
       /\ (pc = "report" /\ pc' = "again"
                /\ Range(observed_symbols') = Range(observed_symbols)
                /\ EntriesWithoutMarker(allowed_symbols') = EntriesWithoutMarker(allowed_symbols)
                /\ PrefixesBeforeMarker(allowed_symbols') = PrefixesBeforeMarker(allowed_symbols))
            => Range(disallowed_symbols_list') = Range(disallowed_symbols_list)]_vars

\* C15 witness: the matcher was called again with two wildcard entries of
\* one prefix and returned a symbol.
C15_Witness ==
    /\ pc = "again"
    /\ io_log = <<Io("match", ""), Io("match", "rearranged arguments")>>
    /\ \E i, j \in 1..Len(allowed_symbols) :
            /\ allowed_symbols[i] # allowed_symbols[j]
            /\ BeforeMarker(allowed_symbols[i]) # {}
            /\ BeforeMarker(allowed_symbols[i]) = BeforeMarker(allowed_symbols[j])
    /\ disallowed_symbols_list # <<>>

\* C15 witness: the matcher was called again with an observed symbol
\* repeated and returned it once.
C15_WitnessRepeated ==
    /\ pc = "again"
    /\ io_log = <<Io("match", ""), Io("match", "rearranged arguments")>>
    /\ ~NoDuplicates(observed_symbols)
    /\ disallowed_symbols_list # <<>>

\* The headers of the run that pyclibrary parsed in part only, with warnings.
PartlyParsedHeaders ==
    {i \in 1..Len(SourceHeaders) : cparser[SourceHeaders[i]].ok /\ cparser[SourceHeaders[i]].warned}

\* The line names one of the two macros.
MentionsMacro(line) ==
    \E p \in 1..Len(line) :
        LiteralAt(line, p, ADD_EXPORTED_SYMBOL) \/ LiteralAt(line, p, ADD_EXPORTED_C_SYMBOL)

\* The export-macro sources of the run with a line that names a macro and is
\* no call of it.
PartlyScannedExports ==
    LET files == PLATFORM_INFO[environ.CHRE_PLATFORM].exported_list_files
    IN {i \in 1..Len(files) :
            \E j \in 1..Len(fs[files[i]].lines) :
                /\ MentionsMacro(fs[files[i]].lines[j])
                /\ ~ExportedName(fs[files[i]].lines[j]).matched}

\* Nothing the run needs is missing: the tool prints a dump of well-formed
\* rows, the build top is set, the header directory can be listed, the
\* platform has a profile, every header can be loaded and every export-macro
\* source exists.
EverySourceReadable ==
    /\ elf_reader.kind = "ok"
    /\ ~HasShortRow(elf_reader.out)
    /\ environ.ANDROID_BUILD_TOP
    /\ listdir_chre.ok
    /\ environ.CHRE_PLATFORM \in {"tinysys", "qsh"}
    /\ \A i \in 1..Len(SourceHeaders) : cparser[SourceHeaders[i]].ok
    /\ \A i \in 1..Len(PLATFORM_INFO[environ.CHRE_PLATFORM].exported_list_files) :
            fs[PLATFORM_INFO[environ.CHRE_PLATFORM].exported_list_files[i]].exists

C13_WitnessExports ==
    /\ EverySourceReadable
    /\ PartlyScannedExports # {}
    /\ ExportNames # {}
    /\ pc = "done"
    /\ error = "none"

\* The positions of io_log at which a source of allowed symbols was read,
\* and those at which the matcher was called.
SourceReads == {i \in 1..Len(io_log) : io_log[i].op \in {"listdir", "parse", "open"}}
MatcherCalls == {i \in 1..Len(io_log) : io_log[i].op = "match"}

\* C14: the steps of a run come in one order and once each: the tool has
\* been run, and its output taken, before any source of allowed symbols is
\* read; the matcher is called once, after the tool run and after every read,
\* that of the extra file included; and once a step has failed the run is
\* over: nothing more can happen, the remaining sources stay unread, the
\* matcher is not called and nothing is reported.
C14_OrderedOneShot ==
    /\ \A i, j \in 1..Len(io_log) : io_log[i] = io_log[j] => i = j
    /\ SourceReads # {}
        => /\ io_log[1] = Io("run", "elf_reader")
           /\ pc # "extract"
    /\ MatcherCalls # {}
        => /\ MatcherCalls = {Len(io_log)}
           /\ io_log[1] = Io("run", "elf_reader")
           /\ Io("listdir", "chre") \in Range(io_log)
           /\ args.allowed_symbols_file # None
                => Io("open", args.allowed_symbols_file) \in Range(io_log)
           /\ pc \in {"report", "done"}
    /\ error # "none"
        => /\ pc = "done"
           /\ ~ENABLED Next
           /\ MatcherCalls = {}
           /\ ~SuccessPrinted /\ ~FailurePrinted
           /\ SourceReads # {} => observed_symbols = UndefinedNames(elf_reader.out)
           /\ (args.allowed_symbols_file # None /\ fs[args.allowed_symbols_file].exists)
                => Io("open", args.allowed_symbols_file) \notin Range(io_log)

\* C14 witness: a run read its headers, an export-macro source and the extra
\* file after the tool, called the matcher last and ended with the report.
C14_Witness ==
    /\ pc = "done"
    /\ error = "none"
    /\ Len(io_log) >= 6
    /\ io_log[1] = Io("run", "elf_reader")
    /\ io_log[Len(io_log) - 1] = Io("open", "extra.txt")
    /\ io_log[Len(io_log)] = Io("match", "")

\* A run whose aggregator failed: the extra file, though given and present,
\* was never opened.
C14_WitnessAbort ==
    /\ pc = "done"
    /\ error # "none"
    /\ SourceReads # {}
    /\ args.allowed_symbols_file # None
    /\ fs[args.allowed_symbols_file].exists

\* The positions from..to of line hold whitespace only.
AllSpace(line, from, to) == \A k \in from..to : line[k] \in Whitespace

\* The calls ADD_EXPORTED_SYMBOL(internal, "external") in a line, each with
\* the position of the macro's name and the external name: the macro's name,
\* whitespace, a parenthesis, one character or more without a comma, a
\* comma, whitespace, a quoted name of one character or more, a parenthesis.
SymbolCalls(line) ==
    UNION {UNION {UNION {UNION {
        {[start |-> p, name |-> SubSeq(line, q1 + 1, q2 - 1)] :
            q2 \in {q \in (q1 + 2)..(Len(line) - 1) :
                        /\ line[q] = "\"" /\ line[q + 1] = ")"
                        /\ \A k \in (q1 + 1)..(q - 1) : line[k] # "\""}} :
            q1 \in {q \in (c + 1)..Len(line) : line[q] = "\"" /\ AllSpace(line, c + 1, q - 1)}} :
            c \in {q \in (o + 2)..Len(line) :
                        line[q] = "," /\ \A k \in (o + 1)..(q - 1) : line[k] # ","}} :
            o \in {q \in (p + Len(ADD_EXPORTED_SYMBOL))..Len(line) :
                        line[q] = "(" /\ AllSpace(line, p + Len(ADD_EXPORTED_SYMBOL), q - 1)}} :
            p \in {q \in 1..Len(line) : LiteralAt(line, q, ADD_EXPORTED_SYMBOL)}}

\* The calls ADD_EXPORTED_C_SYMBOL(identifier) in a line: the macro's name,
\* whitespace, a parenthesis, whitespace, an identifier, whitespace, a
\* parenthesis.
CSymbolCalls(line) ==
    UNION {UNION {UNION {UNION {
        {[start |-> p, name |-> SubSeq(line, f, e)] :
            cl \in {q \in (e + 1)..Len(line) : line[q] = ")" /\ AllSpace(line, e + 1, q - 1)}} :
            e \in {q \in f..Len(line) : \A k \in (f + 1)..q : line[k] \in IdentChar}} :
            f \in {q \in (o + 1)..Len(line) :
                        line[q] \in IdentStart /\ AllSpace(line, o + 1, q - 1)}} :
            o \in {q \in (p + Len(ADD_EXPORTED_C_SYMBOL))..Len(line) :
                        line[q] = "(" /\ AllSpace(line, p + Len(ADD_EXPORTED_C_SYMBOL), q - 1)}} :
            p \in {q \in 1..Len(line) : LiteralAt(line, q, ADD_EXPORTED_C_SYMBOL)}}

Calls(line) == SymbolCalls(line) \cup CSymbolCalls(line)

\* The name of the leftmost call in a line that holds one.
LeftmostCall(line) == CHOOSE m \in Calls(line) : \A n \in Calls(line) : m.start <= n.start

\* The names a file of the given lines yields: one per line that holds a
\* call, in line order.
CallNames(lines) ==
    Concat([i \in 1..Len(lines) |->
                IF Calls(lines[i]) = {} THEN <<>> ELSE <<LeftmostCall(lines[i]).name>>])

\* The export-macro sources of the platform.
ExportFiles == PLATFORM_INFO[environ.CHRE_PLATFORM].exported_list_files

C16_WitnessTwoCalls ==
    /\ pc = "extra"
    /\ Len(fs["nanoapp_loader.cc"].lines) = 1
    /\ Cardinality(Calls(fs["nanoapp_loader.cc"].lines[1])) = 2
    /\ allowed_symbols = <<<<"a">>>>

\* The platform's list file, "" when its profile names none or the platform
\* has no profile.
PlatformListPath ==
    IF environ.CHRE_PLATFORM \in {"tinysys", "qsh"}
    THEN PLATFORM_INFO[environ.CHRE_PLATFORM].external_symbol_list
    ELSE ""

\* The functions of the headers and the names of the export-macro calls, in
\* the order the aggregator collects them.
HeaderFunctions == Concat([i \in 1..Len(SourceHeaders) |-> cparser[SourceHeaders[i]].functions])
ExportCallNames == Concat([i \in 1..Len(ExportFiles) |-> CallNames(fs[ExportFiles[i]].lines)])

\* C17: the platform's list file is opened only when the profile names one
\* and it exists.  When the profile names none, or names a file that does not
\* exist, the aggregator returns the header and export-macro names alone and
\* the run goes on; when the file exists, each of its lines, trimmed, follows
\* them as an allowed entry.
C17_PlatformListOnlyIfPresent ==
    /\ \A k \in 1..Len(io_log) :
            (io_log[k].op = "open" /\ io_log[k].path = "dl_base_symbols.lst")
                => /\ PlatformListPath = "dl_base_symbols.lst"
                   /\ fs["dl_base_symbols.lst"].exists
    /\ (pc = "extra" /\ (PlatformListPath = "" \/ ~fs[PlatformListPath].exists))
            => /\ allowed_symbols = HeaderFunctions \o ExportCallNames
               /\ error = "none"
               /\ Io("open", "dl_base_symbols.lst") \notin Range(io_log)
    /\ (pc = "extra" /\ PlatformListPath # "" /\ fs[PlatformListPath].exists)
            => /\ allowed_symbols
                    = HeaderFunctions \o ExportCallNames
                        \o [i \in 1..Len(fs[PlatformListPath].lines) |->
                                Strip(fs[PlatformListPath].lines[i])]
               /\ Io("open", PlatformListPath) \in Range(io_log)
    /\ (EverySourceReadable /\ pc \notin {"extract", "allowed"})
            => (error # "none"
                    => (args.allowed_symbols_file # None /\ ~fs[args.allowed_symbols_file].exists))

\* C17 witness: the profile names a list file that does not exist, and the
\* run ended with the report.
C17_Witness ==
    /\ PlatformListPath = "dl_base_symbols.lst"
    /\ ~fs[PlatformListPath].exists
    /\ pc = "done"
    /\ error = "none"
    /\ Io("match", "") \in Range(io_log)

\* The list file exists and its padded name reached the allowed list trimmed.
C17_WitnessRead ==
    /\ PlatformListPath = "dl_base_symbols.lst"
    /\ <<" ">> \o mallocHook \o <<" ", "\n">> \in Range(fs[PlatformListPath].lines)
    /\ pc = "extra"
    /\ mallocHook \in Range(allowed_symbols)
    /\ HeaderFunctions = <<>>

\* The profile names no list file, and the run ended with the report.
C17_WitnessNoPath ==
    /\ environ.CHRE_PLATFORM = "tinysys"
    /\ PlatformListPath = ""
    /\ pc = "done"
    /\ error = "none"

\* The steps of one kind in the record of what the wizard did.
Steps(op) == {k \in 1..Len(io_log) : io_log[k].op = op}

\* The variable the step at k is about.
VarOf(k) == target_envs_configs[io_log[k].index]

\* The line read at step k is empty once the blanks around it are dropped.
EnteredNothing(k) == Strip(io_log[k].text) = <<>>

\* The variable defines both a default value and a default action.
HasDefaultAndAction(env_var) == env_var.default # <<>> /\ env_var.default_action # <<>>

\* The default action of the variable asked at step k is run next, or is
\* about to be.
ActionFollows(k) ==
    \/ k < Len(io_log) /\ io_log[k + 1].op = "action" /\ io_log[k + 1].index = io_log[k].index
    \/ k = Len(io_log) /\ pc = "default_action" /\ var_index = io_log[k].index

\* C18: for each variable the wizard asks, the default action runs if and only
\* if the line entered is empty and the variable defines both a default value
\* and a default action; it runs once, right after the line is read and before
\* any value of the variable is validated or recorded; a value entered is
\* validated itself with no action run; and an empty line for a variable with
\* no default ends the wizard with status 1.
C18_DefaultActionIffEmptyAndDefined ==
    /\ \A k \in Steps("input") :
          /\ (EnteredNothing(k) /\ HasDefaultAndAction(VarOf(k))) <=> ActionFollows(k)
          /\ ~EnteredNothing(k)
                => /\ k < Len(io_log)
                   /\ io_log[k + 1] = Event("validate", io_log[k].index, Strip(io_log[k].text))
          /\ (EnteredNothing(k) /\ VarOf(k).default = <<>>)
                => /\ k = Len(io_log)
                   /\ pc = "done"
                   /\ Exited(1)
                   /\ error = "must be provided"
    /\ \A j \in Steps("action") :
          /\ j > 1
          /\ io_log[j - 1].op = "input"
          /\ io_log[j - 1].index = io_log[j].index
          /\ \A k \in 1..Len(io_log) :
                (io_log[k].index = io_log[j].index /\ io_log[k].op \in {"validate", "record", "action"})
                    => (k = j \/ (k > j /\ io_log[k].op # "action"))
    /\ \A k \in Steps("validate") :
          (io_log[k - 1].op # "input" /\ VarOf(k).default_action # <<>>)
              => \E j \in Steps("action") : j < k /\ io_log[j].index = io_log[k].index

\* An empty or blank line was entered, the action ran and the default value
\* was then validated and recorded.
C18_Witness ==
    \E j \in Steps("action"), k \in Steps("record") :
        /\ j < k
        /\ io_log[j].index = io_log[k].index
        /\ io_log[j - 1].text = <<" ">>
        /\ io_log[k].text = _get_canonical_path(Repo)

\* A value was entered for a variable with a default and an action, and
\* recorded with no action run.
C18_WitnessEntered ==
    \E i \in Steps("input"), k \in Steps("record") :
        /\ i < k
        /\ io_log[i].index = io_log[k].index
        /\ HasDefaultAndAction(VarOf(i))
        /\ io_log[k].text = <<"y">>
        /\ Steps("action") = {}

\* Nothing was entered for a variable with an action and no default.
C18_WitnessNoDefault ==
    \E i \in Steps("input") :
        /\ EnteredNothing(i)
        /\ VarOf(i).default = <<>>
        /\ VarOf(i).default_action # <<>>
        /\ pc = "done"

\* Every variable of the configuration has been validated and recorded.
AllRecorded ==
    \A i \in 1..Len(target_envs_configs) :
        \E k \in Steps("record") :
            /\ io_log[k].index = i
            /\ io_log[k - 1] = Event("validate", i, io_log[k - 1].text)

\* C19: the env_vars file changes only in the step that ends a wizard which
\* validated and recorded every variable without a fatal error, and then
\* holds every pair; a run that ended with a fatal error, or in which the
\* user kept the earlier variables, has the file it started with.
C19_FileWrittenOnlyAfterAllValidated ==
    /\ [][env_vars_file' # env_vars_file
             => /\ pc = "prompt"
                /\ var_index > Len(target_envs_configs)
                /\ AllRecorded
                /\ error' = "none"
                /\ exit_status' = <<0>>
                /\ env_vars_file' = [exists |-> TRUE, lines |-> env_var_pairs']
                /\ Len(env_var_pairs') = Len(fixed_env_map) + Len(target_envs_configs) + 1]_vars
    /\ []((pc = "done" /\ Steps("write") = {})
             => env_vars_file \in {[exists |-> FALSE, lines |-> <<>>], EarlierFile})

\* A fatal error ended the wizard after a variable was recorded, and the
\* earlier file is as it was.
C19_Witness ==
    /\ pc = "done"
    /\ Exited(1)
    /\ error \in {"Invalid value", "must be provided", "Duplicate env variable name", "Unknown action"}
    /\ Steps("record") # {}
    /\ env_vars_file = EarlierFile

\* The user kept the earlier variables.
C19_WitnessKept ==
    /\ pc = "done"
    /\ \E k \in Steps("keep") : Lower(io_log[k].text) = <<"y">>
    /\ env_vars_file = EarlierFile
    /\ target_envs_configs # <<>>

\* The user gave the earlier variables up and the wizard overwrote the file.
C19_WitnessOverwritten ==
    /\ Steps("keep") # {}
    /\ Steps("write") # {}
    /\ Steps("record") # {}
    /\ env_vars_file # EarlierFile

\* The commands sent so far, in order.
Commands == [k \in 1..Len(io_log) |-> io_log[k].path]

\* What makes a command of flash.py fail: the success predicate the script
\* gives run for it does not hold on the output.  A command given no
\* predicate cannot fail.
FailsOn(cmd, output) ==
    \/ cmd = Adb.root_remount /\ Search(NoDevices, output)
    \/ cmd = Adb.root /\ ~Search(RemountSucceeded, output)
    \/ cmd \in {Adb.push_so, Adb.push_header} /\ Search(ErrorWord, output)

\* The commands sent whose output failed their predicate.
FailedSteps == {k \in 1..Len(io_log) : FailsOn(io_log[k].path, io_log[k].text)}

\* 'Installation is complete' has been printed.
InstallationComplete == \E i \in 1..Len(stdout) : stdout[i].kind = "Installation is complete"

\* The commands of a whole installation with reboot, in order, between the
\* two calls of root.
BetweenRoots ==
    <<Adb.mkdir, Adb.push_so>> \o (IF environ.CHRE_TARGET_TYPE = "nanoapp" THEN <<Adb.push_header>> ELSE <<>>) \o <<Adb.reboot, Adb.wait_for_device>>

\* C20: a command whose output fails its success predicate is the last one
\* sent: the process has ended with exit(-1), having reported the failure and
\* shown the output.  So after a push of the .so that reports an error neither
\* the .napp_header push nor the reboot is sent, and 'Installation is
\* complete' is printed only when the script was asked to reboot, sent every
\* command of the installation in order and none of them failed.
C20_NoCommandAfterFailedStep ==
    /\ \A k \in FailedSteps :
          /\ k = Len(io_log)
          /\ pc = "done"
          /\ Exited(ExitStatus(-1))
          /\ SubSeq(stdout, Len(stdout) - 1, Len(stdout))
                = <<Printed("FAILED", 0, <<io_log[k].path>>), Printed("output", Len(io_log[k].text), io_log[k].text)>>
    /\ \A k \in 1..Len(io_log) :
          (io_log[k].path = Adb.push_so /\ Search(ErrorWord, io_log[k].text))
              => /\ \A j \in 1..Len(io_log) : io_log[j].path \notin {Adb.push_header, Adb.reboot}
                 /\ ~InstallationComplete
                 /\ ~ENABLED NextFlash
    /\ InstallationComplete
          => /\ FailedSteps = {}
             /\ \A k \in 1..Len(io_log) : io_log[k].ok
             /\ args.reboot
             /\ \E first \in 1..3, last \in 1..3 :
                   /\ Len(Commands) = first + Len(BetweenRoots) + last
                   /\ SubSeq(Commands, first + 1, first + Len(BetweenRoots)) = BetweenRoots
                   /\ Commands[1] = Adb.root_remount
                   /\ Commands[first + Len(BetweenRoots) + 1] = Adb.root_remount
             /\ stdout[Len(stdout)].kind = "Installation is complete"

\* The push of the .so of a nanoapp reported an error in a run asked to
\* reboot.
C20_Witness ==
    /\ \E k \in FailedSteps : io_log[k].path = Adb.push_so /\ io_log[k].text = PushFailed
    /\ environ.CHRE_TARGET_TYPE = "nanoapp"
    /\ args.reboot
    /\ pc = "done"

\* A whole installation of a nanoapp, the device having rebooted to remount
\* both times.
C20_WitnessComplete ==
    /\ InstallationComplete
    /\ environ.CHRE_TARGET_TYPE = "nanoapp"
    /\ Len(io_log) = 3 + Len(BetweenRoots) + 3

\* The second root failed after the reboot: nothing more is sent or printed.
C20_WitnessFailedAfterReboot ==
    /\ \E k \in FailedSteps : k > 1 /\ io_log[k].path \in {Adb.root_remount, Adb.root} /\ io_log[k - 1].path = Adb.wait_for_device /\ \E j \in 1..k : io_log[j].path = Adb.reboot
    /\ pc = "done"

\* C21: the matcher is monotone in the allowed list and bounded by the
\* observed symbols: called again with the same observed symbols and an
\* allowed list holding every earlier entry and one more, it reports a subset
\* of what it reported before, so no symbol accepted before is reported now;
\* and whatever it returns lies within the observed symbols and holds no
\* literal entry of the allowed list it was given.
C21_MonotoneInAllowlist ==
    /\ [][(pc = "report" /\ pc' = "wider")
             => /\ observed_symbols' = observed_symbols
                /\ Range(allowed_symbols) \subseteq Range(allowed_symbols')
                /\ Range(disallowed_symbols_list') \subseteq Range(disallowed_symbols_list)
                /\ \A s \in Range(observed_symbols) \ Range(disallowed_symbols_list) :
                      s \notin Range(disallowed_symbols_list')]_vars
    /\ [](pc \in {"report", "wider"}
             => /\ Range(disallowed_symbols_list) \subseteq Range(observed_symbols)
                /\ Range(disallowed_symbols_list) \cap LiteralEntries(allowed_symbols) = {})

\* The list of one entry accepts every observed symbol, all of which the
\* empty list reported.
C21_Witness ==
    /\ pc = "wider"
    /\ Len(allowed_symbols) = 1
    /\ Cardinality(Range(observed_symbols)) = 2
    /\ disallowed_symbols_list = <<>>

\* A literal entry was added after a wildcard entry: one observed symbol is
\* accepted and one still reported.
C21_WitnessPartly ==
    /\ pc = "wider"
    /\ Len(allowed_symbols) > 1
    /\ IsWildcard(allowed_symbols[1])
    /\ ~IsWildcard(allowed_symbols[Len(allowed_symbols)])
    /\ disallowed_symbols_list # <<>>
    /\ Range(disallowed_symbols_list) # Range(observed_symbols)

=============================================================================
